---------------------------- MODULE Spec2Model ----------------------------
(***************************************************************************)
(* A model of the World engine of pixel-ecs (src/src/ecs/World.ts):        *)
(* archetype storage with swap-remove and migration, the cached query      *)
(* resolver and the double-buffered change tracking.                       *)
(*                                                                         *)
(* Conventions.  Rows are 1-based here (0-based in the source).  A Map or  *)
(* Set of the source whose iteration order is observable is a sequence in  *)
(* insertion order; one whose order is never observed is a set/function.   *)
(* A change-tracking Map that has no entry for a token behaves exactly as  *)
(* one with an empty entry, so these Maps are total functions here.        *)
(***************************************************************************)
EXTENDS Integers, Sequences, FiniteSets, TLC

\* ------------------------------------------------------------------------
\* Bounds of the model
\* ------------------------------------------------------------------------
MaxEntities == 2
MaxList == 2
MaxBatch == 2
\* longest system list of one stage, ids one queue hands out between ticks,
\* readers handed out
MaxSystems == 3
MaxItems == 3
MaxReaders == 2

\* Component tokens, their registry ids, and component values.  Values are
\* plain numbers (component((n) => n)), so a value may equal an entity id.
Tokens == {"A", "B"}
Values == {1, 2}
Ids == 1..MaxEntities
\* the indices of the entityRecords array that a run can fill
MaxCrowd == 3
Slots == 1..MaxCrowd

TokenId(t) == IF t = "A" THEN 1 ELSE 2

\* A ComponentTuple [token, value] and the argument lists of spawn/insert.
Comps == Tokens \X Values
CompLists == UNION {[1..n -> Comps] : n \in 0..MaxList}
TokenLists == UNION {[1..n -> Tokens] : n \in 0..MaxList}

\* ------------------------------------------------------------------------
\* Sequence helpers
\* ------------------------------------------------------------------------
Range(s) == {s[i] : i \in DOMAIN s}
Min(a, b) == IF a < b THEN a ELSE b

Front(s) == SubSeq(s, 1, Len(s) - 1)

\* Set.add on an insertion-ordered Set
SetAdd(s, x) == IF x \in Range(s) THEN s ELSE Append(s, x)

\* new Set(list): the distinct elements in order of first appearance
RECURSIVE ToOrderedSet(_)
ToOrderedSet(s) ==
  IF s = << >> THEN << >>
  ELSE SetAdd(ToOrderedSet(Front(s)), s[Len(s)])

\* Set.delete on an insertion-ordered Set
SetDelete(s, x) == SelectSeq(s, LAMBDA y : y # x)

RECURSIVE InsertSorted(_, _)
InsertSorted(s, x) ==
  IF s = << >> THEN << x >>
  ELSE IF x < Head(s) THEN << x >> \o s
  ELSE << Head(s) >> \o InsertSorted(Tail(s), x)

\* Array.prototype.sort((a, b) => a - b)
RECURSIVE SortNum(_)
SortNum(s) == IF s = << >> THEN << >> ELSE InsertSorted(SortNum(Tail(s)), Head(s))

TokensOf(components) == [i \in DOMAIN components |-> components[i][1]]

\* The key of a signature: the token ids, sorted ascending
\* a key that keeps the order the tokens were given in
getSignatureKey_Unsorted(types) == [i \in DOMAIN types |-> TokenId(types[i])]

getSignatureKey(types) == SortNum([i \in DOMAIN types |-> TokenId(types[i])])

\* ------------------------------------------------------------------------
\* State
\* ------------------------------------------------------------------------
VARIABLES
  entityCounter,     \* last entity id handed out
  entityRecords,     \* id -> NoRecord or [archetype, row]
  archetypes,        \* archetypes in creation order (the Map's iteration order)
  queryCache,        \* cache key -> list of archetype indices
  addedThisFrame, addedLastFrame,
  mutatedThisFrame, mutatedLastFrame,
  removedThisFrame, removedLastFrame,
  pendingDespawns,   \* insertion-ordered Set of ids
  hist,              \* history: what the calls of this tick and the last one did
  steps,             \* number of calls made so far
  states,            \* registered state machines, in insertion order of the Map
  systems,           \* stage -> registered entries, in registration order
  flag,              \* the one resource the guards and systems of the model use
  eventQueues,       \* event token -> queue (a Map: no entry until first use)
  readers,           \* the EventReader instances constructed so far
  log,               \* what the last init() or update() call ran
  sysHist,           \* history: registrations in call order, ticks since insertState
  evHist,            \* history: items sent; per reader the ids it was given, the
                     \* items sent before it was made and before its last read
  handle,            \* the EntityOperations object the caller keeps, if any
  app                \* the App around the world: its fields, the frame
                     \* callbacks requested, and counts of what it has called

\* the variables the entity and query calls never touch
sideVars == << states, systems, flag, eventQueues, readers, log, sysHist, evHist >>

vars == << entityCounter, entityRecords, archetypes, queryCache,
           addedThisFrame, addedLastFrame, mutatedThisFrame, mutatedLastFrame,
           removedThisFrame, removedLastFrame, pendingDespawns, hist, steps,
           states, systems, flag, eventQueues, readers, log, sysHist, evHist,
           handle, app >>

\* the variables of the world
worldVars == << entityCounter, entityRecords, archetypes, queryCache,
                addedThisFrame, addedLastFrame, mutatedThisFrame, mutatedLastFrame,
                removedThisFrame, removedLastFrame, pendingDespawns, hist,
                states, systems, flag, eventQueues, readers, log, sysHist, evHist,
                handle >>

\* new App(world): running and initialised are false and no frame callback
\* is requested.  due: the loop callbacks the current animation frame has
\* still to call; next: those requested for the frame after; awaiting: the
\* runAsync calls suspended at their await.  frames, inFrame, startups,
\* updates, asyncs and halted are history: the animation frames begun, the
\* update() calls of the current frame, the init() and update() calls made,
\* the run() calls made (by the caller or by runAsync) while running was
\* true, the runAsync() calls made, and whether stop() was the last of run,
\* stop and resume to be called.
AppInit ==
  [running |-> FALSE, initialised |-> FALSE, due |-> 0, next |-> 0,
   awaiting |-> 0, frames |-> 0, inFrame |-> 0, startups |-> 0, updates |-> 0,
   reruns |-> 0, asyncs |-> 0, halted |-> FALSE]

\* entityRecords[id] === null / undefined
NoRecord == [archetype |-> 0, row |-> 0]

EmptyMarks == [t \in Tokens |-> {}]
EmptyRemoved == [t \in Tokens |-> << >>]

SigSet(a) == Range(a.signature)

\* ------------------------------------------------------------------------
\* Archetype helpers
\* ------------------------------------------------------------------------
\* this.archetypes.get(key): index of the archetype with that key, 0 if none
ArchetypeGet(archs, signature) ==
  IF \E i \in DOMAIN archs : getSignatureKey(archs[i].signature) = getSignatureKey(signature)
  THEN CHOOSE i \in DOMAIN archs :
         getSignatureKey(archs[i].signature) = getSignatureKey(signature)
  ELSE 0

NewArchetype(signature) ==
  [signature |-> signature,
   columns   |-> [t \in Range(signature) |-> << >>],
   entities  |-> << >>]

\* getOrCreateArchetype: the archetype list afterwards (the index is ArchetypeGet)
getOrCreateArchetype(archs, signature) ==
  IF ArchetypeGet(archs, signature) # 0 THEN archs
  ELSE Append(archs, NewArchetype(signature))

\* a cache that survives the creation of an archetype
CacheAfterGetOrCreate_Kept(archs, signature, cache) == cache

\* the query cache after getOrCreateArchetype (cleared when one is created)
CacheAfterGetOrCreate(archs, signature, cache) ==
  IF ArchetypeGet(archs, signature) # 0 THEN cache ELSE << >>

\* for (const [token, value] of components) columns.get(token).push(value)
RECURSIVE PushComponents(_, _)
PushComponents(columns, components) ==
  IF components = << >> THEN columns
  ELSE LET c == Head(components)
       IN PushComponents([columns EXCEPT ![c[1]] = Append(@, c[2])], Tail(components))

\* for (const [token] of components) marks.get(token).add(entity)
RECURSIVE MarkAll(_, _, _)
MarkAll(marks, tokens, entity) ==
  IF tokens = << >> THEN marks
  ELSE MarkAll([marks EXCEPT ![Head(tokens)] = @ \cup {entity}], Tail(tokens), entity)

RECURSIVE MarkAllRemoved(_, _, _)
MarkAllRemoved(marks, tokens, entity) ==
  IF tokens = << >> THEN marks
  ELSE MarkAllRemoved([marks EXCEPT ![Head(tokens)] = SetAdd(@, entity)],
                      Tail(tokens), entity)

\* a getMut that records nothing
markMutated_Nothing(marks, entityId, token) == marks

markMutated(marks, entityId, token) == [marks EXCEPT ![token] = @ \cup {entityId}]

\* Array.prototype.pop
Pop(s) == IF s = << >> THEN s ELSE Front(s)

\* removeFromArchetype that leaves the relocated entity's record as it was
removeFromArchetype_StaleRecord(archs, records, record) ==
  LET archetype  == archs[record.archetype]
      row        == record.row
      lastRow    == Len(archetype.entities)
      lastEntity == archetype.entities[lastRow]
      cols       == archetype.columns
      swapped    == IF row # lastRow
                    THEN [archetype EXCEPT
                            !.entities = [archetype.entities EXCEPT ![row] = lastEntity],
                            !.columns  = [t \in DOMAIN cols |->
                                            [cols[t] EXCEPT ![row] = cols[t][lastRow]]]]
                    ELSE archetype
      popped     == [swapped EXCEPT
                       !.entities = Pop(swapped.entities),
                       !.columns  = [t \in DOMAIN cols |-> Pop(swapped.columns[t])]]
  IN [archs   |-> [archs EXCEPT ![record.archetype] = popped],
      records |-> records,
      moved   |-> IF row # lastRow THEN lastEntity ELSE 0]

\* removeFromArchetype(record): swap the last row into the vacated row, fix the
\* moved entity's record, shrink every array.  Yields the new archetype list
\* and records.
removeFromArchetype(archs, records, record) ==
  LET archetype  == archs[record.archetype]
      row        == record.row
      lastRow    == Len(archetype.entities)
      lastEntity == archetype.entities[lastRow]
      cols       == archetype.columns
      swapped    == IF row # lastRow
                    THEN [archetype EXCEPT
                            !.entities = [archetype.entities EXCEPT ![row] = lastEntity],
                            !.columns  = [t \in DOMAIN cols |->
                                            [cols[t] EXCEPT ![row] = cols[t][lastRow]]]]
                    ELSE archetype
      records1   == IF row # lastRow
                    THEN [records EXCEPT ![lastEntity].row = row]
                    ELSE records
      popped     == [swapped EXCEPT
                       !.entities = Pop(swapped.entities),
                       !.columns  = [t \in DOMAIN cols |-> Pop(swapped.columns[t])]]
  IN [archs   |-> [archs EXCEPT ![record.archetype] = popped],
      records |-> records1,
      moved   |-> IF row # lastRow THEN lastEntity ELSE 0]

\* ------------------------------------------------------------------------
\* Entity handle reads (world.entity(id).get / has / inspect)
\* ------------------------------------------------------------------------
Undefined == 0

Exists(e) == e \in DOMAIN entityRecords /\ entityRecords[e] # NoRecord

ArchetypeOf(e) == archetypes[entityRecords[e].archetype]

Get(e, t) ==
  IF ~Exists(e) THEN Undefined
  ELSE IF t \notin DOMAIN ArchetypeOf(e).columns THEN Undefined
  ELSE LET col == ArchetypeOf(e).columns[t]
       IN IF entityRecords[e].row \in DOMAIN col THEN col[entityRecords[e].row]
          ELSE Undefined

\* a has without the early return for a missing record
Has_Unguarded(e, types) ==
  \A i \in DOMAIN types : Exists(e) /\ types[i] \in SigSet(ArchetypeOf(e))

\* a has that is content with one of the tokens
Has_Any(e, types) ==
  IF ~Exists(e) THEN FALSE
  ELSE \E i \in DOMAIN types : types[i] \in SigSet(ArchetypeOf(e))

Has(e, types) ==
  IF ~Exists(e) THEN FALSE
  ELSE \A i \in DOMAIN types : types[i] \in SigSet(ArchetypeOf(e))

Inspect(e) ==
  IF ~Exists(e) THEN << >>
  ELSE LET a == ArchetypeOf(e)
       IN [i \in DOMAIN a.signature |->
             LET col == a.columns[a.signature[i]]
             IN IF entityRecords[e].row \in DOMAIN col THEN col[entityRecords[e].row]
                ELSE Undefined]

\* ------------------------------------------------------------------------
\* Stages, states, systems
\* ------------------------------------------------------------------------
\* Three state machines, each made by its own call of state(states, initial):
\*   GameState and Screen over {Menu: "menu", Playing: "playing"},
\*   Door over {Open: "open", Shut: "shut"}; initial is the first value.
StateTokens == {"GameState", "Screen", "Door"}

\* Object.values(states)
ValuesOf(token) ==
  IF token = "Door" THEN << "open", "shut" >> ELSE << "menu", "playing" >>

StateValues == UNION {Range(ValuesOf(k)) : k \in StateTokens}

\* token.initial
initial(token) == ValuesOf(token)[1]

\* token[TOKEN_NAME]: Object.values(states).join(":"), kept as the list of
\* the joined values (no value of the model contains a colon)
TokenName(token) == ValuesOf(token)

\* previous: null
Null == "null"

\* token.Menu, token.Playing: { state: token, value }
StateValue(token, value) == [state |-> token, value |-> value]

\* A stage token.  The built-in stages are distinct tokens; OnEnter and OnExit
\* are stageFor(key), one token per key string.
BuiltIn(kind) == [kind |-> kind, key |-> ""]
Startup == BuiltIn("Startup")
PreUpdate == BuiltIn("PreUpdate")
UpdateStage == BuiltIn("Update")
PostUpdate == BuiltIn("PostUpdate")
Render == BuiltIn("Render")

\* stageFor(key): the cached token of the key
stageFor(kind, name, value) == [kind |-> kind, key |-> << name, value >>]

OnEnter(stateValue) == stageFor("OnEnter", TokenName(stateValue.state), stateValue.value)
OnExit(stateValue) == stageFor("OnExit", TokenName(stateValue.state), stateValue.value)

Stages ==
  {Startup, PreUpdate, UpdateStage, PostUpdate, Render}
    \cup {OnEnter(StateValue(k, v)) : k \in StateTokens, v \in StateValues}
    \cup {OnExit(StateValue(k, v)) : k \in StateTokens, v \in StateValues}

\* The system functions of the model and the guards of their when lists.
\*   mark, mark2  do nothing            raise, lower  insertResource(Flag(..))
\*   send         getEventWriter(E).send(1)
\*   reap         entity(1).despawn()   play  setState(GameState.Playing)
\*   flagOn       (w) => w.getResource(Flag) === true       flagOff its negation
SystemNames ==
  {"mark", "mark2", "raise", "lower", "send", "reap", "play", "recv", "boom"}
Conditions == {"flagOn", "flagOff", "sane"}
EventTokens == {"E"}

\* this.states.get(token): the position of the entry, 0 if there is none
StateIndex(sts, token) ==
  IF \E i \in DOMAIN sts : sts[i].token = token
  THEN CHOOSE i \in DOMAIN sts : sts[i].token = token
  ELSE 0

\* a setState that also replaces an equal value
setState_Always(sts, stateValue) ==
  LET i == StateIndex(sts, stateValue.state)
  IN IF i = 0 THEN sts
     ELSE [sts EXCEPT ![i] = [token |-> @.token, current |-> stateValue.value,
                              previous |-> @.current, dirty |-> TRUE]]

\* setState(stateValue): the Map afterwards
setState(sts, stateValue) ==
  LET i == StateIndex(sts, stateValue.state)
  IN IF i = 0 THEN sts
     ELSE IF sts[i].current = stateValue.value THEN sts
     ELSE [sts EXCEPT ![i] = [token |-> @.token, current |-> stateValue.value,
                              previous |-> @.current, dirty |-> TRUE]]

\* getState(token)
getState(sts, token) ==
  IF StateIndex(sts, token) = 0 THEN "undefined"
  ELSE sts[StateIndex(sts, token)].current

\* ------------------------------------------------------------------------
\* Event queues, writers and readers
\* ------------------------------------------------------------------------
\* new EventQueue()
NewQueue == [events |-> << >>, currentFrame |-> 0, nextId |-> 0]

\* getEventWriter / getEventReader: the Map with a queue for the token
WithQueue(queues, token) ==
  IF token \in DOMAIN queues THEN queues
  ELSE [k \in DOMAIN queues \cup {token} |->
          IF k = token THEN NewQueue ELSE queues[k]]

\* EventQueue.send
send(queue, event) ==
  [queue EXCEPT
     !.events = Append(@, [data |-> event, id |-> queue.nextId,
                           frame |-> queue.currentFrame]),
     !.nextId = @ + 1]

\* EventQueue.iter
iter(queue) ==
  [i \in DOMAIN queue.events |->
     [data |-> queue.events[i].data, id |-> queue.events[i].id]]

\* an EventQueue.nextFrame that drops every item at the end of its tick
nextFrame_Early(queue) ==
  [queue EXCEPT
     !.currentFrame = @ + 1,
     !.events = SelectSeq(@, LAMBDA e : (queue.currentFrame + 1) - e.frame < 1)]

\* an EventQueue.nextFrame that keeps items one frame longer
nextFrame_Late(queue) ==
  [queue EXCEPT
     !.currentFrame = @ + 1,
     !.events = SelectSeq(@, LAMBDA e : (queue.currentFrame + 1) - e.frame < 3)]

\* EventQueue.nextFrame
nextFrame(queue) ==
  [queue EXCEPT
     !.currentFrame = @ + 1,
     !.events = SelectSeq(@, LAMBDA e : (queue.currentFrame + 1) - e.frame < 2)]

\* an EventQueue.getOldestId that always answers the next id
getOldestId_Next(queue) == queue.nextId

\* EventQueue.getOldestId
getOldestId(queue) ==
  IF Len(queue.events) > 0 THEN queue.events[1].id ELSE queue.nextId

\* World.advanceEventFrames
advanceEventFrames(queues) == [k \in DOMAIN queues |-> nextFrame(queues[k])]

\* new EventReader(queue)
NewReader(queues, token) ==
  [token |-> token, lastReadId |-> getOldestId(queues[token])]

\* an EventReader.read that skips the item the cursor points at
Unread_Strict(queues, reader) ==
  SelectSeq(iter(queues[reader.token]), LAMBDA e : e.id > reader.lastReadId)

\* EventReader.read: the unread items
Unread(queues, reader) ==
  SelectSeq(iter(queues[reader.token]), LAMBDA e : e.id >= reader.lastReadId)

\* EventReader.read: the value returned
ReadResult(queues, reader) ==
  [i \in DOMAIN Unread(queues, reader) |-> Unread(queues, reader)[i].data]

\* an EventReader.read that leaves the cursor where it was
ReadCursor_Kept(queues, reader) == reader.lastReadId

\* EventReader.read: the cursor afterwards
ReadCursor(queues, reader) ==
  LET unread == Unread(queues, reader)
  IN IF Len(unread) > 0 THEN unread[Len(unread)].id + 1 ELSE reader.lastReadId

\* ids of the items the queue of a reader retains
RetainedIds(queues, reader) ==
  {queues[reader.token].events[i].id : i \in DOMAIN queues[reader.token].events}

\* ------------------------------------------------------------------------
\* Running a stage
\* ------------------------------------------------------------------------
\* The part of the world a system or a guard of the model can read or write,
\* threaded through one init() or update():
\*   sts the states Map, flg the Flag resource, queues the event queues,
\*   pending the pendingDespawns set, visits the systems reached so far,
\*   sent the items sent so far, rdrs the readers handed out, heard what
\*   the readers have been handed so far, thrown whether a system or guard
\*   has thrown and the exception is on its way out of the call.
WorldNow ==
  [sts |-> states, flg |-> flag, queues |-> eventQueues,
   pending |-> pendingDespawns, visits |-> << >>, sent |-> evHist.sent,
   hooks |-> << >>, rdrs |-> readers,
   heard |-> [got |-> evHist.got, seen |-> evHist.seen, mark |-> evHist.mark,
              readIn |-> evHist.readIn],
   thrown |-> FALSE]

\* reader.read() of the r-th reader handed out, with what it is handed noted
ReadBy(w, r) ==
  IF r \notin DOMAIN w.rdrs THEN w
  ELSE LET unread == Unread(w.queues, w.rdrs[r])
       IN [w EXCEPT
             !.rdrs[r].lastReadId = ReadCursor(w.queues, w.rdrs[r]),
             !.heard.got[r] = @ \o [i \in DOMAIN unread |-> unread[i].id],
             !.heard.seen[r] = @ \cup RetainedIds(w.queues, w.rdrs[r]),
             !.heard.mark[r] = Len(w.sent),
             !.heard.readIn[r] = TRUE]

\* cond(this) of one guard; the guard sane answers true when the Flag
\* resource is set and throws when it is not (noted as an answer of false)
Cond(c, w) == IF c \in {"flagOn", "sane"} THEN w.flg ELSE ~w.flg

\* the evaluation of the guards ended with a guard that threw
GuardThrew(evals) ==
  /\ evals # << >>
  /\ evals[Len(evals)].cond = "sane"
  /\ ~evals[Len(evals)].value

\* an every() that goes on after a guard answered false
Every_All(conditions, w) ==
  [i \in DOMAIN conditions |->
     [cond |-> conditions[i], value |-> Cond(conditions[i], w)]]

\* conditions.every(cond => cond(this)): the guards evaluated, in order, with
\* their answers; evaluation stops after the first false
RECURSIVE Every(_, _)
Every(conditions, w) ==
  IF conditions = << >> THEN << >>
  ELSE LET v == Cond(Head(conditions), w)
       IN << [cond |-> Head(conditions), value |-> v] >>
            \o (IF v THEN Every(Tail(conditions), w) ELSE << >>)

\* the answer of conditions.every(...)
Passed(conditions, evals) ==
  /\ Len(evals) = Len(conditions)
  /\ \A i \in DOMAIN evals : evals[i].value

\* system(this): the world after the body of the system
Body(name, w) ==
  CASE name = "raise" -> [w EXCEPT !.flg = TRUE]
    [] name = "lower" -> [w EXCEPT !.flg = FALSE]
    [] name = "send" ->
         LET qs == WithQueue(w.queues, "E")
         IN [w EXCEPT
               !.queues = [qs EXCEPT !["E"] = send(@, 1)],
               !.sent = Append(@, [id |-> qs["E"].nextId, data |-> 1,
                                   tick |-> hist.ticks, inTick |-> TRUE])]
    [] name = "reap" ->
         [w EXCEPT !.pending = IF entityRecords[1] = NoRecord THEN @
                               ELSE SetAdd(@, 1)]
    [] name = "recv" -> ReadBy(w, 1)
    [] name = "boom" -> [w EXCEPT !.thrown = ~w.flg]
    [] name = "play" ->
         [w EXCEPT !.sts = setState(@, StateValue("GameState", "playing"))]
    [] OTHER -> w

\* one iteration of the loop of runStage
RunEntry(w, stage, entry) ==
  IF w.thrown THEN w
  ELSE
  LET evals == Every(entry.conditions, w)
      pass == Passed(entry.conditions, evals)
      w1 == IF pass THEN Body(entry.system, w) ELSE w
  IN [w1 EXCEPT !.visits = Append(@, [system |-> entry.system, stage |-> stage,
                                      evals |-> evals, ran |-> pass,
                                      flg |-> w.flg,
                                      cur |-> [k \in StateTokens |-> getState(w.sts, k)],
                                      now |-> [k \in StateTokens |-> getState(w1.sts, k)]]),
                !.thrown = @ \/ GuardThrew(evals)]

RECURSIVE RunEntries(_, _, _)
RunEntries(w, stage, entries) ==
  IF entries = << >> THEN w
  ELSE RunEntries(RunEntry(w, stage, Head(entries)), stage, Tail(entries))

\* a runStage that runs the list back to front
runStage_Reversed(w, stage) ==
  RunEntries(w, stage,
             [i \in DOMAIN systems[stage] |->
                systems[stage][Len(systems[stage]) + 1 - i]])

\* runStage(stage); a stage without a Map entry has the empty list
runStage(w, stage) == RunEntries(w, stage, systems[stage])

\* this.runStage(hook({ state: token, value })) inside runStateTransitions;
\* the call is noted with whether a system of the stage ran in it
Dispatch(w, token, kind, value) ==
  IF w.thrown THEN w
  ELSE
  LET w1 == runStage(w, IF kind = "OnEnter" THEN OnEnter(StateValue(token, value))
                        ELSE OnExit(StateValue(token, value)))
  IN [w1 EXCEPT !.hooks = Append(@, [token |-> token, kind |-> kind, value |-> value,
                                     ran |-> \E n \in (Len(w.visits) + 1)..Len(w1.visits) :
                                               w1.visits[n].ran])]

\* a runStateTransitions that runs the OnEnter stage before the OnExit stage
RECURSIVE TransitionsFrom_EnterFirst(_, _)
TransitionsFrom_EnterFirst(w, i) ==
  IF i > Len(w.sts) \/ w.thrown THEN w
  ELSE IF ~w.sts[i].dirty THEN TransitionsFrom_EnterFirst(w, i + 1)
  ELSE LET token == w.sts[i].token
           w1 == Dispatch(w, token, "OnEnter", w.sts[i].current)
           w2 == IF w1.sts[i].previous # Null
                 THEN Dispatch(w1, token, "OnExit", w1.sts[i].previous)
                 ELSE w1
           w3 == IF w2.thrown THEN w2
                 ELSE [w2 EXCEPT !.sts[i].previous = Null, !.sts[i].dirty = FALSE]
       IN TransitionsFrom_EnterFirst(w3, i + 1)

\* the loop of runStateTransitions from the i-th entry of the states Map on
RECURSIVE TransitionsFrom(_, _)
TransitionsFrom(w, i) ==
  IF i > Len(w.sts) \/ w.thrown THEN w
  ELSE IF ~w.sts[i].dirty THEN TransitionsFrom(w, i + 1)
  ELSE LET token == w.sts[i].token
           w1 == IF w.sts[i].previous # Null
                 THEN Dispatch(w, token, "OnExit", w.sts[i].previous)
                 ELSE w
           w2 == Dispatch(w1, token, "OnEnter", w1.sts[i].current)
           w3 == IF w2.thrown THEN w2
                 ELSE [w2 EXCEPT !.sts[i].previous = Null, !.sts[i].dirty = FALSE]
       IN TransitionsFrom(w3, i + 1)

\* runStateTransitions()
runStateTransitions(w) == TransitionsFrom(w, 1)

\* an update() that runs the Render stage first
UpdateStages_RenderFirst(w) ==
  runStage(runStage(runStage(runStateTransitions(runStage(w, Render)),
                             PreUpdate), UpdateStage), PostUpdate)

\* no setState call is waiting for a dispatch
NoPend == [from |-> Null, to |-> Null, n |-> 0, by |-> {}, ready |-> FALSE]

\* the systems of the model that call setState on a token
Setters(token) == IF token = "GameState" THEN {"play"} ELSE {}

\* the visits of a call, made in one of these stage kinds, whose system ran
\* and called setState on the token
SetCalls(visits, token, kinds) ==
  SelectSeq(visits, LAMBDA v : /\ v.ran /\ v.system \in Setters(token)
                               /\ v.stage.kind \in kinds)

\* history of the setState calls on a token that the dispatch of an update
\* did not see: made by hook systems or by systems of the later stages
PendAfter(visits, token) ==
  LET calls == SetCalls(visits, token,
                        {"OnExit", "OnEnter", "Update", "PostUpdate", "Render"})
  IN IF calls = << >> \/ calls[1].cur[token] = "undefined" THEN NoPend
     ELSE [from |-> calls[1].cur[token], to |-> calls[Len(calls)].now[token],
           n |-> Len(calls), by |-> {calls[i].stage.kind : i \in DOMAIN calls},
           ready |-> TRUE]

\* the systems a call reached without running them
Skipped(visits) ==
  {<< visits[i].stage, visits[i].system >> : i \in {j \in DOMAIN visits : ~visits[j].ran}}

\* history of the hook dispatches of a token: the value whose OnEnter stage
\* was dispatched last, and whether its OnExit stage has not been dispatched
\* since
NoneEntered == [last |-> Null, open |-> FALSE]

RECURSIVE EnteredAfter(_, _)
EnteredAfter(entered, hooks) ==
  IF hooks = << >> THEN entered
  ELSE LET h == Head(hooks)
           e == entered[h.token]
       IN EnteredAfter(
            [entered EXCEPT ![h.token] =
               IF h.kind = "OnEnter" THEN [last |-> h.value, open |-> TRUE]
               ELSE IF h.value = e.last THEN [e EXCEPT !.open = FALSE]
               ELSE e],
            Tail(hooks))

\* the five stage phases of update(), in the order of the code
UpdateStages(w) ==
  runStage(runStage(runStage(runStateTransitions(runStage(w, PreUpdate)),
                             UpdateStage), PostUpdate), Render)

\* ------------------------------------------------------------------------
\* History of the calls, kept beside the program state
\* ------------------------------------------------------------------------
\* hist.recv[t]: the entities that received t since the last update();
\* hist.rem[t]: those that lost t (remove, finalized despawn); hist.acc[t]:
\* those whose t was reached through getMut or queryMut; hist.over[t]: those
\* whose t an insert overwrote.  The ...Last fields hold the same for the tick
\* before.  hist.moved: the entities the last call relocated inside their
\* archetype.  hist.read: the entities a noted read-only call looked at since
\* the last update().  hist.ticks: the number of update() calls completed.
Sig(e) == IF Exists(e) THEN SigSet(ArchetypeOf(e)) ELSE {}

NoEvents == [t \in Tokens |-> {}]

HistInit ==
  [recv |-> NoEvents, recvLast |-> NoEvents, rem |-> NoEvents, remLast |-> NoEvents,
   acc |-> NoEvents, accLast |-> NoEvents, over |-> NoEvents, overLast |-> NoEvents,
   read |-> {}, readLast |-> {}, moved |-> {}, ticks |-> 0]

Relocated(records, records1) ==
  {e \in Slots : /\ records[e] # NoRecord
               /\ records1[e] # NoRecord
               /\ records1[e].archetype = records[e].archetype
               /\ records1[e].row # records[e].row}

Note(events, tokens, entities) ==
  [t \in Tokens |-> IF t \in tokens THEN events[t] \cup entities ELSE events[t]]

HistRotate(h) ==
  [h EXCEPT !.ticks = h.ticks + 1,
            !.recvLast = h.recv, !.remLast = h.rem, !.accLast = h.acc,
            !.overLast = h.over, !.readLast = h.read, !.read = {},
            !.recv = NoEvents, !.rem = NoEvents, !.acc = NoEvents, !.over = NoEvents]

\* ------------------------------------------------------------------------
\* A kept handle: const ops = world.entity(id)
\* ------------------------------------------------------------------------
\* entity(entityId) reads this.entityRecords[entityId] once; the closures of
\* the returned object keep that record object and the flag exists.  While
\* the world's table still holds the same object (live), the row the world
\* writes into it is the row the handle sees; once the table entry of the id
\* is assigned a new object or null, the handle keeps the object as it was.
NoHandle == [id |-> 0, exists |-> FALSE, live |-> FALSE, record |-> NoRecord]

\* const record = this.entityRecords[entityId]; const exists = !!record
Captured(records, entityId) ==
  [id |-> entityId, exists |-> records[entityId] # NoRecord,
   live |-> records[entityId] # NoRecord, record |-> records[entityId]]

\* the handle after a call that took the table from records to records1 and
\* assigned the entry of an id only by moving it to another archetype or by
\* setting it to null (either changes the archetype of the entry)
Follow(h, records, records1) ==
  IF ~h.live THEN h
  ELSE IF records1[h.id].archetype # records[h.id].archetype
       THEN [h EXCEPT !.live = FALSE]
       ELSE [h EXCEPT !.record = records1[h.id]]

\* ------------------------------------------------------------------------
\* Initial state: a freshly constructed World
\* ------------------------------------------------------------------------
Init ==
  /\ entityCounter = 0
  /\ entityRecords = [e \in Slots |-> NoRecord]
  /\ archetypes = << >>
  /\ queryCache = << >>
  /\ addedThisFrame = EmptyMarks
  /\ addedLastFrame = EmptyMarks
  /\ mutatedThisFrame = EmptyMarks
  /\ mutatedLastFrame = EmptyMarks
  /\ removedThisFrame = EmptyRemoved
  /\ removedLastFrame = EmptyRemoved
  /\ pendingDespawns = << >>
  /\ hist = HistInit
  /\ steps = 0
  /\ states = << >>
  /\ systems = [s \in Stages |-> << >>]
  /\ flag = FALSE
  /\ eventQueues = << >>
  /\ readers = << >>
  /\ log = [call |-> "none", visits |-> << >>, hooks |-> << >>, threw |-> FALSE]
  /\ sysHist = [regs |-> << >>, since |-> [k \in StateTokens |-> -1],
                changed |-> [k \in StateTokens |-> FALSE], skipped |-> {},
                pend |-> [k \in StateTokens |-> NoPend],
                entered |-> [k \in StateTokens |-> NoneEntered]]
  /\ evHist = [sent |-> << >>, got |-> << >>, born |-> << >>,
               wasReset |-> << >>, seen |-> << >>, mark |-> << >>,
               readIn |-> << >>, idle |-> << >>]
  /\ handle = NoHandle
  /\ app = AppInit

\* ------------------------------------------------------------------------
\* spawn / spawnBatch
\* ------------------------------------------------------------------------
\* a spawn that does not record the supplied tokens as added
SpawnRow_Unmarked(st, idx, components) ==
  LET entity    == st.counter + 1
      archetype == st.archs[idx]
      row       == Len(archetype.entities) + 1
      filled    == [archetype EXCEPT
                      !.entities = Append(@, entity),
                      !.columns  = PushComponents(@, components)]
  IN [counter |-> entity,
      archs   |-> [st.archs EXCEPT ![idx] = filled],
      records |-> [st.records EXCEPT ![entity] = [archetype |-> idx, row |-> row]],
      added   |-> st.added]

\* One entity appended to archetype idx: the body of spawn after the archetype
\* lookup, which is also the body of spawnBatch's loop.  st carries the
\* fields the loop updates.
SpawnRow(st, idx, components) ==
  LET entity    == st.counter + 1
      archetype == st.archs[idx]
      row       == Len(archetype.entities) + 1
      filled    == [archetype EXCEPT
                      !.entities = Append(@, entity),
                      !.columns  = PushComponents(@, components)]
  IN [counter |-> entity,
      archs   |-> [st.archs EXCEPT ![idx] = filled],
      records |-> [st.records EXCEPT ![entity] = [archetype |-> idx, row |-> row]],
      added   |-> MarkAll(st.added, TokensOf(components), entity)]

\* the fields spawn and spawnBatch write, as the world holds them now
StoreNow ==
  [counter |-> entityCounter, archs |-> archetypes, records |-> entityRecords,
   added |-> addedThisFrame, cache |-> queryCache]

\* spawn(...components) on the fields s
AfterSpawn(s, components) ==
  LET signature == ToOrderedSet(TokensOf(components))
      archs1    == getOrCreateArchetype(s.archs, signature)
      st        == SpawnRow([counter |-> s.counter, archs |-> archs1,
                             records |-> s.records, added |-> s.added],
                            ArchetypeGet(archs1, signature), components)
  IN [counter |-> st.counter, archs |-> st.archs, records |-> st.records,
      added |-> st.added,
      cache |-> CacheAfterGetOrCreate(s.archs, signature, s.cache)]

\* spawn in a run that hands out at most limit ids
SpawnUpTo(limit, components) ==
  /\ entityCounter < limit
  /\ LET st == AfterSpawn(StoreNow, components)
     IN /\ entityCounter' = st.counter
        /\ archetypes' = st.archs
        /\ entityRecords' = st.records
        /\ addedThisFrame' = st.added
        /\ queryCache' = st.cache
        /\ hist' = [hist EXCEPT
                      !.recv = Note(@, Range(TokensOf(components)), {st.counter}),
                      !.moved = Relocated(entityRecords, st.records)]
  /\ UNCHANGED << addedLastFrame, mutatedThisFrame, mutatedLastFrame,
                  removedThisFrame, removedLastFrame, pendingDespawns >>
  /\ UNCHANGED << sideVars, handle >>

Spawn(components) == SpawnUpTo(MaxEntities, components)

\* The factory of a spawnBatch call returns first on its first call and rest
\* on every later call.
FactoryCall(i, first, rest) == IF i = 0 THEN first ELSE rest

\* a loop that pushes the template components for every entity
RECURSIVE SpawnBatchLoop_TemplateOnly(_, _, _, _, _, _)
SpawnBatchLoop_TemplateOnly(st, idx, i, count, first, rest) ==
  IF i >= count THEN st
  ELSE SpawnBatchLoop_TemplateOnly(SpawnRow(st, idx, first),
                                   idx, i + 1, count, first, rest)

RECURSIVE SpawnBatchLoop(_, _, _, _, _, _)
SpawnBatchLoop(st, idx, i, count, first, rest) ==
  IF i >= count THEN st
  ELSE SpawnBatchLoop(SpawnRow(st, idx, FactoryCall(i, first, rest)),
                      idx, i + 1, count, first, rest)

\* the factory calls of spawnBatch(count, factory): the template call and
\* one for every pass of the loop but the first
RECURSIVE LoopFactoryCalls(_, _)
LoopFactoryCalls(i, count) ==
  IF i >= count THEN 0
  ELSE (IF i = 0 THEN 0 ELSE 1) + LoopFactoryCalls(i + 1, count)

FactoryCalls(count) == 1 + LoopFactoryCalls(0, count)

\* spawnBatch(count, factory) on the fields s
AfterSpawnBatch(s, count, first, rest) ==
  LET signature == ToOrderedSet(TokensOf(first))
      archs1    == getOrCreateArchetype(s.archs, signature)
      st        == SpawnBatchLoop([counter |-> s.counter, archs |-> archs1,
                                   records |-> s.records, added |-> s.added],
                                  ArchetypeGet(archs1, signature),
                                  0, count, first, rest)
  IN [counter |-> st.counter, archs |-> st.archs, records |-> st.records,
      added |-> st.added,
      cache |-> CacheAfterGetOrCreate(s.archs, signature, s.cache)]

\* spawnBatch in a run that hands out at most limit ids
SpawnBatchUpTo(limit, count, first, rest) ==
  /\ entityCounter + count <= limit
  /\ LET st == AfterSpawnBatch(StoreNow, count, first, rest)
     IN /\ entityCounter' = st.counter
        /\ archetypes' = st.archs
        /\ entityRecords' = st.records
        /\ addedThisFrame' = st.added
        /\ queryCache' = st.cache
        /\ hist' = [hist EXCEPT
                      !.recv = Note(@, Range(TokensOf(first)),
                                    (entityCounter + 1)..st.counter),
                      !.moved = Relocated(entityRecords, st.records)]
  /\ UNCHANGED << addedLastFrame, mutatedThisFrame, mutatedLastFrame,
                  removedThisFrame, removedLastFrame, pendingDespawns >>
  /\ UNCHANGED << sideVars, handle >>

SpawnBatch(count, first, rest) == SpawnBatchUpTo(MaxEntities, count, first, rest)

\* ------------------------------------------------------------------------
\* world.entity(id).insert(...components)
\* ------------------------------------------------------------------------
\* for (const [token, value] of components) columns.get(token)[oldRow] = value
RECURSIVE OverwriteComponents(_, _, _)
OverwriteComponents(columns, row, components) ==
  IF components = << >> THEN columns
  ELSE LET c == Head(components)
       IN OverwriteComponents([columns EXCEPT ![c[1]] = [@ EXCEPT ![row] = c[2]]],
                              row, Tail(components))

\* for (const x of list) set.add(x), on an insertion-ordered Set
RECURSIVE AddAll(_, _)
AddAll(set, list) ==
  IF list = << >> THEN set ELSE AddAll(SetAdd(set, Head(list)), Tail(list))

\* a remove whose new signature still holds every token
DeleteAll_None(set, list) == set

RECURSIVE DeleteAll(_, _)
DeleteAll(set, list) ==
  IF list = << >> THEN set ELSE DeleteAll(SetDelete(set, Head(list)), Tail(list))

\* componentValues.set(token, value) for every supplied component, in order
RECURSIVE SetValues(_, _)
SetValues(values, components) ==
  IF components = << >> THEN values
  ELSE LET c == Head(components)
       IN SetValues([values EXCEPT ![c[1]] = c[2]], Tail(components))

\* componentValues after the snapshot of the row: the values of the tokens
\* read from the old archetype (others are the tokens still to be set)
RowValues(archetype, row, tokens, others) ==
  [t \in tokens \cup others |->
     IF t \in tokens THEN archetype.columns[t][row] ELSE Undefined]

\* newArchetype.entities.push(entityId); one push per token of newSignature
AppendRow(archetype, entityId, componentValues) ==
  [archetype EXCEPT
     !.entities = Append(@, entityId),
     !.columns  = [t \in DOMAIN @ |-> Append(@[t], componentValues[t])]]

\* the body of insert for the entity id e and the record its handle holds
InsertAt(e, record, components) ==
  /\ e \in Slots
  /\ IF record = NoRecord
     THEN /\ hist' = [hist EXCEPT !.moved = {}]
          /\ UNCHANGED << entityRecords, archetypes, queryCache, addedThisFrame,
                          mutatedThisFrame >>
     ELSE
       LET oldArchetype == archetypes[record.archetype]
           oldRow       == record.row
           newTokens    == SelectSeq(components,
                                     LAMBDA c : c[1] \notin SigSet(oldArchetype))
           supplied     == Range(TokensOf(components))
       IN IF newTokens = << >>
          THEN /\ archetypes' =
                    [archetypes EXCEPT ![record.archetype].columns =
                       OverwriteComponents(@, oldRow, components)]
               /\ mutatedThisFrame' =
                    MarkAll(mutatedThisFrame, TokensOf(components), e)
               /\ hist' = [hist EXCEPT !.over = Note(@, supplied, {e}),
                                       !.moved = {}]
               /\ UNCHANGED << entityRecords, queryCache, addedThisFrame >>
          ELSE
            LET newSignature    == AddAll(oldArchetype.signature, TokensOf(components))
                componentValues ==
                  SetValues(RowValues(oldArchetype, oldRow, SigSet(oldArchetype),
                                      Range(newSignature)),
                            components)
                r            == removeFromArchetype(archetypes, entityRecords, record)
                archs2       == getOrCreateArchetype(r.archs, newSignature)
                idx          == ArchetypeGet(archs2, newSignature)
                newRow       == Len(archs2[idx].entities) + 1
                records2     == [r.records EXCEPT
                                   ![e] = [archetype |-> idx, row |-> newRow]]
            IN /\ archetypes' =
                    [archs2 EXCEPT ![idx] = AppendRow(@, e, componentValues)]
               /\ entityRecords' = records2
               /\ queryCache' =
                    CacheAfterGetOrCreate(r.archs, newSignature, queryCache)
               /\ addedThisFrame' = MarkAll(addedThisFrame, TokensOf(newTokens), e)
               /\ hist' = [hist EXCEPT
                             !.recv = Note(@, supplied \ SigSet(oldArchetype), {e}),
                             !.over = Note(@, supplied \cap SigSet(oldArchetype), {e}),
                             !.moved = Relocated(entityRecords, records2)]
               /\ UNCHANGED mutatedThisFrame
  /\ UNCHANGED << entityCounter, addedLastFrame, mutatedLastFrame,
                  removedThisFrame, removedLastFrame, pendingDespawns >>
  /\ UNCHANGED sideVars

\* world.entity(e).insert(...components): a handle made for this one call
Insert(e, components) ==
  /\ InsertAt(e, entityRecords[e], components)
  /\ handle' = Follow(handle, entityRecords, entityRecords')

\* ------------------------------------------------------------------------
\* world.entity(id).remove(...types)
\* ------------------------------------------------------------------------
\* a remove that moves the entity to the archetype of the empty signature
\* instead of dropping its record
RemoveAt_KeepsEmpty(e, record, types) ==
  /\ e \in Slots
  /\ IF record = NoRecord
     THEN /\ hist' = [hist EXCEPT !.moved = {}]
          /\ UNCHANGED << entityRecords, archetypes, queryCache, removedThisFrame >>
     ELSE
       LET oldArchetype  == archetypes[record.archetype]
           oldRow        == record.row
           typesToRemove == SelectSeq(types, LAMBDA t : t \in SigSet(oldArchetype))
       IN IF typesToRemove = << >>
          THEN /\ hist' = [hist EXCEPT !.moved = {}]
               /\ UNCHANGED << entityRecords, archetypes, queryCache,
                               removedThisFrame >>
          ELSE
            LET newSignature    == DeleteAll(oldArchetype.signature, typesToRemove)
                componentValues == RowValues(oldArchetype, oldRow,
                                             Range(newSignature), {})
                r               == removeFromArchetype(archetypes, entityRecords, record)
                archs2          == getOrCreateArchetype(r.archs, newSignature)
                idx             == ArchetypeGet(archs2, newSignature)
                newRow          == Len(archs2[idx].entities) + 1
                records2        == [r.records EXCEPT
                                      ![e] = [archetype |-> idx, row |-> newRow]]
            IN /\ removedThisFrame' =
                    MarkAllRemoved(removedThisFrame, typesToRemove, e)
               /\ archetypes' =
                    [archs2 EXCEPT ![idx] = AppendRow(@, e, componentValues)]
               /\ queryCache' =
                    CacheAfterGetOrCreate(r.archs, newSignature, queryCache)
               /\ entityRecords' = records2
               /\ hist' = [hist EXCEPT
                             !.rem = Note(@, Range(types) \cap SigSet(oldArchetype), {e}),
                             !.moved = Relocated(entityRecords, records2)]
  /\ UNCHANGED << entityCounter, addedThisFrame, addedLastFrame, mutatedThisFrame,
                  mutatedLastFrame, removedLastFrame, pendingDespawns >>
  /\ UNCHANGED sideVars

\* the body of remove for the entity id e and the record its handle holds
RemoveAt(e, record, types) ==
  /\ e \in Slots
  /\ IF record = NoRecord
     THEN /\ hist' = [hist EXCEPT !.moved = {}]
          /\ UNCHANGED << entityRecords, archetypes, queryCache, removedThisFrame >>
     ELSE
       LET oldArchetype  == archetypes[record.archetype]
           oldRow        == record.row
           typesToRemove == SelectSeq(types, LAMBDA t : t \in SigSet(oldArchetype))
       IN IF typesToRemove = << >>
          THEN /\ hist' = [hist EXCEPT !.moved = {}]
               /\ UNCHANGED << entityRecords, archetypes, queryCache,
                               removedThisFrame >>
          ELSE
            LET newSignature    == DeleteAll(oldArchetype.signature, typesToRemove)
                componentValues == RowValues(oldArchetype, oldRow,
                                             Range(newSignature), {})
                r               == removeFromArchetype(archetypes, entityRecords, record)
                archs2          == getOrCreateArchetype(r.archs, newSignature)
                idx             == ArchetypeGet(archs2, newSignature)
                newRow          == Len(archs2[idx].entities) + 1
                records2        == IF Len(newSignature) > 0
                                   THEN [r.records EXCEPT
                                           ![e] = [archetype |-> idx, row |-> newRow]]
                                   ELSE [r.records EXCEPT ![e] = NoRecord]
            IN /\ removedThisFrame' =
                    MarkAllRemoved(removedThisFrame, typesToRemove, e)
               /\ IF Len(newSignature) > 0
                  THEN /\ archetypes' =
                            [archs2 EXCEPT ![idx] = AppendRow(@, e, componentValues)]
                       /\ queryCache' =
                            CacheAfterGetOrCreate(r.archs, newSignature, queryCache)
                  ELSE /\ archetypes' = r.archs
                       /\ UNCHANGED queryCache
               /\ entityRecords' = records2
               /\ hist' = [hist EXCEPT
                             !.rem = Note(@, Range(types) \cap SigSet(oldArchetype), {e}),
                             !.moved = Relocated(entityRecords, records2)]
  /\ UNCHANGED << entityCounter, addedThisFrame, addedLastFrame, mutatedThisFrame,
                  mutatedLastFrame, removedLastFrame, pendingDespawns >>
  /\ UNCHANGED sideVars

\* world.entity(e).remove(...types): a handle made for this one call
Remove(e, types) ==
  /\ RemoveAt(e, entityRecords[e], types)
  /\ handle' = Follow(handle, entityRecords, entityRecords')

\* ------------------------------------------------------------------------
\* world.entity(id).despawn() and world.entity(id).getMut(token)
\* ------------------------------------------------------------------------
Despawn(e) ==
  /\ e \in Slots
  /\ pendingDespawns' = IF entityRecords[e] = NoRecord THEN pendingDespawns
                        ELSE SetAdd(pendingDespawns, e)
  /\ hist' = [hist EXCEPT !.moved = {}]
  /\ UNCHANGED << entityCounter, entityRecords, archetypes, queryCache,
                  addedThisFrame, addedLastFrame, mutatedThisFrame,
                  mutatedLastFrame, removedThisFrame, removedLastFrame >>
  /\ UNCHANGED << sideVars, handle >>

GetMut(e, token) ==
  /\ e \in Slots
  /\ mutatedThisFrame' =
       IF entityRecords[e] = NoRecord THEN mutatedThisFrame
       ELSE IF token \notin DOMAIN ArchetypeOf(e).columns THEN mutatedThisFrame
       ELSE markMutated(mutatedThisFrame, e, token)
  /\ hist' = [hist EXCEPT
                !.acc = IF token \in Sig(e) THEN Note(@, {token}, {e}) ELSE @,
                !.moved = {}]
  /\ UNCHANGED << entityCounter, entityRecords, archetypes, queryCache,
                  addedThisFrame, addedLastFrame, mutatedLastFrame,
                  removedThisFrame, removedLastFrame, pendingDespawns >>
  /\ UNCHANGED << sideVars, handle >>

\* ------------------------------------------------------------------------
\* Calls on the kept handle
\* ------------------------------------------------------------------------
\* const ops = world.entity(entityId)
EntityOps(entityId) ==
  /\ entityId \in Slots
  /\ handle' = Captured(entityRecords, entityId)
  /\ hist' = [hist EXCEPT !.moved = {}]
  /\ UNCHANGED << entityCounter, entityRecords, archetypes, queryCache,
                  addedThisFrame, addedLastFrame, mutatedThisFrame,
                  mutatedLastFrame, removedThisFrame, removedLastFrame,
                  pendingDespawns >>
  /\ UNCHANGED sideVars

\* the record the closures of the handle use (none when exists is false)
View(h) == IF h.exists THEN h.record ELSE NoRecord

\* the record names a row its archetype has.  Past the end of the arrays the
\* writes of insert and remove grow them with holes or throw; the calls of
\* the model that write are made only on a record that names a row.
InBounds(record) ==
  record # NoRecord =>
    record.row \in DOMAIN archetypes[record.archetype].entities

\* ops.get(token)
HGet(token) ==
  IF ~handle.exists THEN Undefined
  ELSE LET a == archetypes[handle.record.archetype]
       IN IF token \notin DOMAIN a.columns THEN Undefined
          ELSE IF handle.record.row \in DOMAIN a.columns[token]
               THEN a.columns[token][handle.record.row]
               ELSE Undefined

\* ops.has(...types)
HHas(types) ==
  IF ~handle.exists THEN FALSE
  ELSE \A i \in DOMAIN types :
         types[i] \in SigSet(archetypes[handle.record.archetype])

\* ops.inspect()
HInspect ==
  IF ~handle.exists THEN << >>
  ELSE LET a == archetypes[handle.record.archetype]
       IN [i \in DOMAIN a.signature |->
             LET col == a.columns[a.signature[i]]
             IN IF handle.record.row \in DOMAIN col THEN col[handle.record.row]
                ELSE Undefined]

\* ops.insert(...components)
HInsert(components) ==
  /\ handle.id \in Slots
  /\ InBounds(View(handle))
  /\ InsertAt(handle.id, View(handle), components)
  /\ handle' = Follow(handle, entityRecords, entityRecords')

\* ops.remove(...types)
HRemove(types) ==
  /\ handle.id \in Slots
  /\ InBounds(View(handle))
  /\ RemoveAt(handle.id, View(handle), types)
  /\ handle' = Follow(handle, entityRecords, entityRecords')

\* ops.getMut(token)
HGetMut(token) ==
  /\ handle.id \in Slots
  /\ mutatedThisFrame' =
       IF ~handle.exists THEN mutatedThisFrame
       ELSE IF token \notin DOMAIN archetypes[handle.record.archetype].columns
            THEN mutatedThisFrame
            ELSE markMutated(mutatedThisFrame, handle.id, token)
  /\ hist' = [hist EXCEPT
                !.acc = IF handle.exists /\ token \in Sig(handle.id)
                        THEN Note(@, {token}, {handle.id}) ELSE @,
                !.moved = {}]
  /\ UNCHANGED << entityCounter, entityRecords, archetypes, queryCache,
                  addedThisFrame, addedLastFrame, mutatedLastFrame,
                  removedThisFrame, removedLastFrame, pendingDespawns >>
  /\ UNCHANGED << sideVars, handle >>

\* ops.despawn()
HDespawn ==
  /\ handle.id \in Slots
  /\ pendingDespawns' = IF ~handle.exists THEN pendingDespawns
                        ELSE SetAdd(pendingDespawns, handle.id)
  /\ hist' = [hist EXCEPT !.moved = {}]
  /\ UNCHANGED << entityCounter, entityRecords, archetypes, queryCache,
                  addedThisFrame, addedLastFrame, mutatedThisFrame,
                  mutatedLastFrame, removedThisFrame, removedLastFrame >>
  /\ UNCHANGED << sideVars, handle >>

\* ------------------------------------------------------------------------
\* update(): the finalization passes that follow the stages
\* ------------------------------------------------------------------------
\* a processDespawns that leaves the entity's record in place
RECURSIVE processDespawns_RecordKept(_, _)
processDespawns_RecordKept(st, pending) ==
  IF pending = << >> THEN st
  ELSE LET entityId == Head(pending)
           record   == st.records[entityId]
       IN IF record = NoRecord THEN processDespawns_RecordKept(st, Tail(pending))
          ELSE processDespawns_RecordKept(
                 [archs   |-> st.archs,
                  records |-> st.records,
                  removed |-> MarkAllRemoved(st.removed,
                                st.archs[record.archetype].signature, entityId)],
                 Tail(pending))

\* a processDespawns that records no removal
RECURSIVE processDespawns_Unmarked(_, _)
processDespawns_Unmarked(st, pending) ==
  IF pending = << >> THEN st
  ELSE LET entityId == Head(pending)
           record   == st.records[entityId]
       IN IF record = NoRecord THEN processDespawns_Unmarked(st, Tail(pending))
          ELSE LET r == removeFromArchetype(st.archs, st.records, record)
               IN processDespawns_Unmarked(
                    [archs   |-> r.archs,
                     records |-> [r.records EXCEPT ![entityId] = NoRecord],
                     removed |-> st.removed],
                    Tail(pending))

\* processDespawns over the pending ids in insertion order
RECURSIVE processDespawns(_, _)
processDespawns(st, pending) ==
  IF pending = << >> THEN st
  ELSE LET entityId == Head(pending)
           record   == st.records[entityId]
       IN IF record = NoRecord THEN processDespawns(st, Tail(pending))
          ELSE LET r == removeFromArchetype(st.archs, st.records, record)
               IN processDespawns(
                    [archs   |-> r.archs,
                     records |-> [r.records EXCEPT ![entityId] = NoRecord],
                     removed |-> MarkAllRemoved(st.removed,
                                   st.archs[record.archetype].signature, entityId)],
                    Tail(pending))

\* the record of id when processDespawns reaches it (NoRecord if it does not)
RECURSIVE RecordAtDespawn(_, _, _)
RecordAtDespawn(st, pending, id) ==
  IF pending = << >> THEN NoRecord
  ELSE IF Head(pending) = id /\ st.records[id] # NoRecord THEN st.records[id]
  ELSE RecordAtDespawn(processDespawns(st, << Head(pending) >>), Tail(pending), id)

\* the handle after processDespawns: detached with the record as it was when
\* its entry was set to null, otherwise following the table
FollowDespawns(h, st, pending, records1) ==
  IF ~h.live THEN h
  ELSE IF records1[h.id] = NoRecord
       THEN [h EXCEPT !.live = FALSE, !.record = RecordAtDespawn(st, pending, h.id)]
       ELSE [h EXCEPT !.record = records1[h.id]]

\* an advanceChangeTracking that keeps the accumulators
advanceChangeTracking_NotCleared(added, removed, mutated) ==
  [addedLast   |-> added, removedLast |-> removed, mutatedLast |-> mutated,
   addedThis   |-> added, removedThis |-> removed, mutatedThis |-> mutated]

\* advanceChangeTracking: the six maps afterwards
advanceChangeTracking(added, removed, mutated) ==
  [addedLast   |-> added,      removedLast |-> removed,      mutatedLast |-> mutated,
   addedThis   |-> EmptyMarks, removedThis |-> EmptyRemoved, mutatedThis |-> EmptyMarks]

\* One update(): the stages with the state-transition dispatch, then
\* processDespawns, advanceEventFrames and advanceChangeTracking.
\* update() from processDespawns() on, after the stages (w) have returned
Finalize(w) ==
  LET d == processDespawns([archs |-> archetypes, records |-> entityRecords,
                            removed |-> removedThisFrame], w.pending)
      c == advanceChangeTracking(addedThisFrame, d.removed, mutatedThisFrame)
  IN /\ archetypes' = d.archs
     /\ entityRecords' = d.records
     /\ pendingDespawns' = << >>
     /\ eventQueues' = advanceEventFrames(w.queues)
     /\ addedLastFrame' = c.addedLast
     /\ removedLastFrame' = c.removedLast
     /\ mutatedLastFrame' = c.mutatedLast
     /\ addedThisFrame' = c.addedThis
     /\ removedThisFrame' = c.removedThis
     /\ mutatedThisFrame' = c.mutatedThis
     /\ evHist' = [evHist EXCEPT
                     !.sent = w.sent, !.got = w.heard.got, !.seen = w.heard.seen,
                     !.mark = w.heard.mark,
                     !.idle = [r \in DOMAIN @ |-> @[r] \/ ~w.heard.readIn[r]],
                     !.readIn = [r \in DOMAIN @ |-> FALSE]]
     /\ sysHist' = [sysHist EXCEPT
                      !.skipped = @ \cup Skipped(w.visits),
                      !.entered = EnteredAfter(@, w.hooks),
                      !.pend = [k \in StateTokens |-> PendAfter(w.visits, k)],
                      !.since = [k \in StateTokens |->
                                   IF @[k] < 0 THEN @[k] ELSE Min(@[k] + 1, 2)],
                      !.changed = [k \in StateTokens |->
                                     getState(w.sts, k) # getState(states, k)]]
     /\ hist' = HistRotate(
                  [hist EXCEPT
                     !.rem = [t \in Tokens |->
                                @[t] \cup {e \in Range(w.pending) : t \in Sig(e)}],
                     !.moved = Relocated(entityRecords, d.records)])
     /\ handle' = FollowDespawns(handle, [archs |-> archetypes,
                                           records |-> entityRecords,
                                           removed |-> removedThisFrame],
                                  w.pending, d.records)

\* an update() that runs its finalization passes although a system threw
Propagate_Finalized(w) == Finalize(w)

\* update() left by the exception a system or guard threw in the stages (w):
\* the statements after the throwing call are not executed
Propagate(w) ==
  /\ pendingDespawns' = w.pending
  /\ eventQueues' = w.queues
  /\ evHist' = [evHist EXCEPT
                  !.sent = w.sent, !.got = w.heard.got, !.seen = w.heard.seen,
                  !.mark = w.heard.mark, !.readIn = w.heard.readIn]
  /\ sysHist' = [sysHist EXCEPT
                   !.skipped = @ \cup Skipped(w.visits),
                   !.entered = EnteredAfter(@, w.hooks)]
  /\ hist' = [hist EXCEPT !.moved = {}]
  /\ UNCHANGED << archetypes, entityRecords, addedThisFrame, addedLastFrame,
                  mutatedThisFrame, mutatedLastFrame, removedThisFrame,
                  removedLastFrame, handle >>

\* update()
Update ==
  /\ LET w == UpdateStages(WorldNow)
     IN /\ states' = w.sts
        /\ flag' = w.flg
        /\ log' = [call |-> "update", visits |-> w.visits, hooks |-> w.hooks,
                   threw |-> w.thrown]
        /\ readers' = w.rdrs
        /\ IF w.thrown THEN Propagate(w) ELSE Finalize(w)
  /\ UNCHANGED << entityCounter, queryCache, systems >>

\* ------------------------------------------------------------------------
\* Systems, states and events: the calls
\* ------------------------------------------------------------------------
\* the entity store apart from the pending despawns
storeVars == << entityCounter, entityRecords, archetypes, queryCache,
                addedThisFrame, addedLastFrame, mutatedThisFrame,
                mutatedLastFrame, removedThisFrame, removedLastFrame, handle >>

\* Array.isArray(system) ? system : [system]
AsArray(system) == system.items

\* an addSystem that puts the new entries in front of the list
Registered_InFront(list, system, when) ==
  [i \in DOMAIN AsArray(system) |->
     [system |-> AsArray(system)[i], conditions |-> when]] \o list

\* the list of a stage after addSystem(stage, system, {when})
Registered(list, system, when) ==
  list \o [i \in DOMAIN AsArray(system) |->
             [system |-> AsArray(system)[i], conditions |-> when]]

\* addSystem(stage, system, options)
AddSystem(stage, system, when) ==
  /\ Len(systems[stage]) + Len(AsArray(system)) <= MaxSystems
  /\ systems' = [systems EXCEPT ![stage] = Registered(@, system, when)]
  /\ sysHist' = [sysHist EXCEPT
                   !.regs = @ \o [i \in DOMAIN system.items |->
                                    [stage |-> stage, system |-> system.items[i],
                                     conditions |-> when]]]
  /\ hist' = [hist EXCEPT !.moved = {}]
  /\ UNCHANGED storeVars
  /\ UNCHANGED << pendingDespawns, states, flag, eventQueues, readers, log, evHist >>

\* an init() that goes on into the PreUpdate stage
InitStages_WithPreUpdate(w) == runStage(runStage(w, Startup), PreUpdate)

\* the stage init() runs
InitStages(w) == runStage(w, Startup)

\* init()
init ==
  /\ LET w == InitStages(WorldNow)
     IN /\ states' = w.sts
        /\ flag' = w.flg
        /\ eventQueues' = w.queues
        /\ pendingDespawns' = w.pending
        /\ log' = [call |-> "init", visits |-> w.visits, hooks |-> w.hooks,
                   threw |-> w.thrown]
        /\ readers' = w.rdrs
        /\ evHist' = [evHist EXCEPT
                        !.sent = w.sent, !.got = w.heard.got, !.seen = w.heard.seen,
                        !.mark = w.heard.mark, !.readIn = w.heard.readIn]
        /\ sysHist' = [sysHist EXCEPT !.skipped = @ \cup Skipped(w.visits)]
  /\ hist' = [hist EXCEPT !.moved = {}]
  /\ UNCHANGED storeVars
  /\ UNCHANGED systems

\* insertState(token)
InsertState(token) ==
  /\ LET i == StateIndex(states, token)
         entry == [token |-> token, current |-> initial(token),
                   previous |-> Null, dirty |-> TRUE]
     IN states' = IF i = 0 THEN Append(states, entry)
                  ELSE [states EXCEPT ![i] = entry]
  /\ sysHist' = [sysHist EXCEPT !.since[token] = 0, !.changed[token] = FALSE,
                                !.pend[token] = NoPend,
                                !.entered[token] = NoneEntered]
  /\ hist' = [hist EXCEPT !.moved = {}]
  /\ UNCHANGED storeVars
  /\ UNCHANGED << pendingDespawns, systems, flag, eventQueues, readers, log, evHist >>

\* setState(stateValue), called between ticks
SetState(stateValue) ==
  /\ states' = setState(states, stateValue)
  /\ sysHist' = [sysHist EXCEPT
                   !.changed[stateValue.state] =
                      @ \/ getState(states', stateValue.state)
                             # getState(states, stateValue.state),
                   !.pend[stateValue.state] =
                      IF StateIndex(states, stateValue.state) = 0 THEN @
                      ELSE IF @.n = 0
                      THEN [from |-> getState(states, stateValue.state),
                            to |-> getState(states', stateValue.state), n |-> 1,
                            by |-> {"between"},
                            ready |-> sysHist.since[stateValue.state] >= 1]
                      ELSE [@ EXCEPT !.to = getState(states', stateValue.state),
                                     !.n = Min(@ + 1, 3), !.by = @ \cup {"between"}]]
  /\ hist' = [hist EXCEPT !.moved = {}]
  /\ UNCHANGED storeVars
  /\ UNCHANGED << pendingDespawns, systems, flag, eventQueues, readers, log, evHist >>

\* insertResource(Flag(b)), called between ticks
SetFlag(b) ==
  /\ flag' = b
  /\ hist' = [hist EXCEPT !.moved = {}]
  /\ UNCHANGED storeVars
  /\ UNCHANGED << pendingDespawns, states, systems, eventQueues, readers, log,
                  sysHist, evHist >>

\* getEventWriter(token).send(event), called between ticks
Send(token, event) ==
  /\ LET qs == WithQueue(eventQueues, token)
     IN /\ qs[token].nextId < MaxItems
        /\ eventQueues' = [qs EXCEPT ![token] = send(@, event)]
        /\ evHist' = [evHist EXCEPT
                        !.sent = Append(@, [id |-> qs[token].nextId, data |-> event,
                                            tick |-> hist.ticks, inTick |-> FALSE])]
  /\ hist' = [hist EXCEPT !.moved = {}]
  /\ UNCHANGED storeVars
  /\ UNCHANGED << pendingDespawns, states, systems, flag, readers, log, sysHist >>

\* getEventReader(token); the caller keeps the reader
GetEventReader(token) ==
  /\ Len(readers) < MaxReaders
  /\ eventQueues' = WithQueue(eventQueues, token)
  /\ readers' = Append(readers, NewReader(eventQueues', token))
  /\ evHist' = [evHist EXCEPT
                  !.got = Append(@, << >>),
                  !.born = Append(@, Len(evHist.sent)),
                  !.wasReset = Append(@, FALSE),
                  !.seen = Append(@, {}),
                  !.mark = Append(@, -1),
                  !.readIn = Append(@, TRUE),
                  !.idle = Append(@, FALSE)]
  /\ hist' = [hist EXCEPT !.moved = {}]
  /\ UNCHANGED storeVars
  /\ UNCHANGED << pendingDespawns, states, systems, flag, log, sysHist >>

\* reader.read() of the r-th reader handed out
Read(r) ==
  /\ r \in DOMAIN readers
  /\ LET w == ReadBy(WorldNow, r)
     IN /\ readers' = w.rdrs
        /\ evHist' = [evHist EXCEPT
                        !.got = w.heard.got, !.seen = w.heard.seen,
                        !.mark = w.heard.mark, !.readIn = w.heard.readIn]
  /\ hist' = [hist EXCEPT !.moved = {}]
  /\ UNCHANGED storeVars
  /\ UNCHANGED << pendingDespawns, states, systems, flag, eventQueues, log, sysHist >>

\* reader.reset() of the r-th reader handed out
Reset(r) ==
  /\ r \in DOMAIN readers
  /\ readers' = [readers EXCEPT
                   ![r].lastReadId = getOldestId(eventQueues[readers[r].token])]
  /\ evHist' = [evHist EXCEPT !.wasReset[r] = TRUE, !.mark[r] = -1]
  /\ hist' = [hist EXCEPT !.moved = {}]
  /\ UNCHANGED storeVars
  /\ UNCHANGED << pendingDespawns, states, systems, flag, eventQueues, log, sysHist >>

\* ------------------------------------------------------------------------
\* Queries
\* ------------------------------------------------------------------------
\* Query arguments: the Entity pseudo-token, a component token, Without(token)
Entity == [kind |-> "entity", tok |-> "Entity"]
Req(t) == [kind |-> "token", tok |-> t]
Without(t) == [kind |-> "without", tok |-> t]
isWithout(q) == q.kind = "without"

\* The argument lists the model passes to the query methods
QueryArgs ==
  { << Req("A") >>,
    << Entity, Req("A") >>,
    << Req("A"), Entity >>,
    << Entity, Req("B") >>,
    << Entity, Req("B"), Req("A") >>,
    << Entity, Req("A"), Without("B") >>,
    << Without("A"), Entity >> }

\* types.filter(...) of the query methods
RequiredOf(types) ==
  LET kept == SelectSeq(types, LAMBDA q : q.kind = "token")
  IN [i \in DOMAIN kept |-> kept[i].tok]

ExcludedOf(types) ==
  LET kept == SelectSeq(types, LAMBDA q : q.kind = "without")
  IN [i \in DOMAIN kept |-> TokenId(kept[i].tok)]

OutputTypes(types) == SelectSeq(types, LAMBDA q : ~isWithout(q))

\* The cache key: the sorted required ids, then the sorted excluded ids (ids
\* are single digits, so the default string sort orders them as numbers)
QueryKey(types) == << getSignatureKey(RequiredOf(types)), SortNum(ExcludedOf(types)) >>

\* the scan of a cache miss: indices of the matching archetypes, in creation order
RECURSIVE ScanArchetypes(_, _, _, _)
ScanArchetypes(archs, i, required, excluded) ==
  IF i > Len(archs) THEN << >>
  ELSE LET sig         == Range(archs[i].signature)
           hasRequired == \A k \in DOMAIN required : required[k] \in sig
           hasExcluded == \E k \in DOMAIN excluded :
                             \E t \in sig : TokenId(t) = excluded[k]
       IN (IF hasRequired /\ ~hasExcluded THEN << i >> ELSE << >>)
          \o ScanArchetypes(archs, i + 1, required, excluded)

\* getMatchingArchetypes: the archetype list returned
getMatchingArchetypes(cache, archs, types) ==
  IF QueryKey(types) \in DOMAIN cache THEN cache[QueryKey(types)]
  ELSE ScanArchetypes(archs, 1, RequiredOf(types), ExcludedOf(types))

\* getMatchingArchetypes: the cache afterwards
CacheAfterQuery(cache, archs, types) ==
  IF QueryKey(types) \in DOMAIN cache THEN cache
  ELSE [k \in DOMAIN cache \cup {QueryKey(types)} |->
          IF k = QueryKey(types)
          THEN ScanArchetypes(archs, 1, RequiredOf(types), ExcludedOf(types))
          ELSE cache[k]]

\* columns.map((col) => col[row]) for one row of one archetype
RowTuple(archetype, row, outputTypes) ==
  [i \in DOMAIN outputTypes |->
     IF outputTypes[i] = Entity THEN archetype.entities[row]
     ELSE IF outputTypes[i].tok \notin DOMAIN archetype.columns THEN Undefined
     ELSE IF row \in DOMAIN archetype.columns[outputTypes[i].tok]
          THEN archetype.columns[outputTypes[i].tok][row]
          ELSE Undefined]

\* world.query(...types): the tuples of the listed archetypes, row by row
RECURSIVE QueryRows(_, _, _)
QueryRows(archs, list, outputTypes) ==
  IF list = << >> THEN << >>
  ELSE [row \in 1..Len(archs[Head(list)].entities) |->
          RowTuple(archs[Head(list)], row, outputTypes)]
       \o QueryRows(archs, Tail(list), outputTypes)

\* world.query(...types): the tuples returned in the current state
QueryResult(types) ==
  QueryRows(archetypes, getMatchingArchetypes(queryCache, archetypes, types),
            OutputTypes(types))

\* world.queryMut(...types): the tuples, and the marks after the loop
RECURSIVE QueryMutRows(_, _, _)
QueryMutRows(archs, list, outputTypes) ==
  IF list = << >> THEN << >>
  ELSE LET archetype == archs[Head(list)]
       IN [row \in 1..Len(archetype.entities) |->
             RowTuple(archetype, row, outputTypes)]
          \o QueryMutRows(archs, Tail(list), outputTypes)

QueryMutResult(types) ==
  QueryMutRows(archetypes, getMatchingArchetypes(queryCache, archetypes, types),
               OutputTypes(types))

RECURSIVE QueryMutMarks(_, _, _, _)
QueryMutMarks(marks, archs, list, componentTypes) ==
  IF list = << >> THEN marks
  ELSE QueryMutMarks(
         [t \in Tokens |->
            IF t \in Range(componentTypes)
            THEN marks[t] \cup Range(archs[Head(list)].entities)
            ELSE marks[t]],
         archs, Tail(list), componentTypes)

\* the union of the marks of the requested components
MarkedEntities(marks, componentTypes) ==
  UNION {marks[componentTypes[i]] : i \in DOMAIN componentTypes}

\* query(...types).filter((tuple) => entities.has(tuple[0]))
FilterByFirst(rows, entities) == SelectSeq(rows, LAMBDA tuple : tuple[1] \in entities)

\* queryAdded / queryChanged: the tuples returned, given the last-frame marks
QueryTracked(marks, types) ==
  IF RequiredOf(types) = << >> THEN << >>
  ELSE IF MarkedEntities(marks, RequiredOf(types)) = {} THEN << >>
  ELSE FilterByFirst(QueryResult(types), MarkedEntities(marks, RequiredOf(types)))

QueryAddedResult(types) == QueryTracked(addedLastFrame, types)
QueryChangedResult(types) == QueryTracked(mutatedLastFrame, types)

\* queryRemoved(...types): Array.from of the union Set, in insertion order
RECURSIVE RemovedUnion(_, _)
RemovedUnion(marks, componentTypes) ==
  IF componentTypes = << >> THEN << >>
  ELSE AddAll(RemovedUnion(marks, Front(componentTypes)),
              marks[componentTypes[Len(componentTypes)]])

QueryRemovedResult(types) == RemovedUnion(removedLastFrame, RequiredOf(types))

\* the live entities a query's arguments select
Selected(types) ==
  {e \in Slots : /\ Exists(e)
                 /\ \A i \in DOMAIN types :
                    /\ types[i].kind = "token" => types[i].tok \in Sig(e)
                    /\ types[i].kind = "without" => types[i].tok \notin Sig(e)}

\* a query that marks what it returns as mutated, as queryMut does
QueryNoting_Marking(types, touched) ==
  /\ queryCache' = CacheAfterQuery(queryCache, archetypes, types)
  /\ mutatedThisFrame' =
       QueryMutMarks(mutatedThisFrame, archetypes,
                     getMatchingArchetypes(queryCache, archetypes, types),
                     RequiredOf(types))
  /\ hist' = [hist EXCEPT !.read = @ \cup touched, !.moved = {}]
  /\ UNCHANGED << entityCounter, entityRecords, archetypes, addedThisFrame,
                  addedLastFrame, mutatedLastFrame, removedThisFrame,
                  removedLastFrame, pendingDespawns >>
  /\ UNCHANGED << sideVars, handle >>

\* query(...types); the history notes the entities in touched as read
QueryNoting(types, touched) ==
  /\ queryCache' = CacheAfterQuery(queryCache, archetypes, types)
  /\ hist' = [hist EXCEPT !.read = @ \cup touched, !.moved = {}]
  /\ UNCHANGED << entityCounter, entityRecords, archetypes, addedThisFrame,
                  addedLastFrame, mutatedThisFrame, mutatedLastFrame,
                  removedThisFrame, removedLastFrame, pendingDespawns >>
  /\ UNCHANGED << sideVars, handle >>

Query(types) == QueryNoting(types, {})

QueryMut(types) ==
  /\ queryCache' = CacheAfterQuery(queryCache, archetypes, types)
  /\ mutatedThisFrame' =
       QueryMutMarks(mutatedThisFrame, archetypes,
                     getMatchingArchetypes(queryCache, archetypes, types),
                     RequiredOf(types))
  /\ hist' = [hist EXCEPT
                !.acc = Note(@, Range(RequiredOf(types)), Selected(types)),
                !.moved = {}]
  /\ UNCHANGED << entityCounter, entityRecords, archetypes, addedThisFrame,
                  addedLastFrame, mutatedLastFrame, removedThisFrame,
                  removedLastFrame, pendingDespawns >>
  /\ UNCHANGED << sideVars, handle >>

\* queryAdded and queryChanged reach this.query only past their early returns
QueryTrackedNoting(marks, types, noted) ==
  /\ queryCache' =
       IF RequiredOf(types) = << >>
          \/ MarkedEntities(marks, RequiredOf(types)) = {}
       THEN queryCache
       ELSE CacheAfterQuery(queryCache, archetypes, types)
  /\ hist' = [hist EXCEPT
                !.read = IF ~noted
                            \/ RequiredOf(types) = << >>
                            \/ MarkedEntities(marks, RequiredOf(types)) = {}
                         THEN @ ELSE @ \cup Selected(types),
                !.moved = {}]
  /\ UNCHANGED << entityCounter, entityRecords, archetypes, addedThisFrame,
                  addedLastFrame, mutatedThisFrame, mutatedLastFrame,
                  removedThisFrame, removedLastFrame, pendingDespawns >>
  /\ UNCHANGED << sideVars, handle >>

QueryAdded(types) == QueryTrackedNoting(addedLastFrame, types, FALSE)

QueryChanged(types) == QueryTrackedNoting(mutatedLastFrame, types, FALSE)

\* queryRemoved(...types): builds its result from removedLastFrame
QueryRemoved(types) ==
  /\ hist' = [hist EXCEPT
                !.read = @ \cup {e \in Range(QueryRemovedResult(types)) : Exists(e)},
                !.moved = {}]
  /\ UNCHANGED << entityCounter, entityRecords, archetypes, queryCache,
                  addedThisFrame, addedLastFrame, mutatedThisFrame,
                  mutatedLastFrame, removedThisFrame, removedLastFrame,
                  pendingDespawns >>
  /\ UNCHANGED << sideVars, handle >>

\* world.entity(e).get(token), .has(...types) and .inspect(): a handle made
\* for the one call, which returns Get(e, token), Has(e, types), Inspect(e)
CallGet(e, token) ==
  /\ e \in Slots
  /\ hist' = [hist EXCEPT !.read = IF Exists(e) THEN @ \cup {e} ELSE @,
                          !.moved = {}]
  /\ UNCHANGED << entityCounter, entityRecords, archetypes, queryCache,
                  addedThisFrame, addedLastFrame, mutatedThisFrame,
                  mutatedLastFrame, removedThisFrame, removedLastFrame,
                  pendingDespawns >>
  /\ UNCHANGED << sideVars, handle >>

CallHas(e, types) == CallGet(e, Null)

CallInspect(e) == CallGet(e, Null)

\* getState(token) and getResource(token) return what the Maps hold
GetState(token) ==
  /\ hist' = [hist EXCEPT !.moved = {}]
  /\ UNCHANGED << entityCounter, entityRecords, archetypes, queryCache,
                  addedThisFrame, addedLastFrame, mutatedThisFrame,
                  mutatedLastFrame, removedThisFrame, removedLastFrame,
                  pendingDespawns >>
  /\ UNCHANGED << sideVars, handle >>

GetResource == GetState(Null)

\* registerArchetype(...tokens)
RegisterArchetype(tokens) ==
  /\ archetypes' = getOrCreateArchetype(archetypes, ToOrderedSet(tokens))
  /\ queryCache' = CacheAfterGetOrCreate(archetypes, ToOrderedSet(tokens), queryCache)
  /\ hist' = [hist EXCEPT !.moved = {}]
  /\ UNCHANGED << entityCounter, entityRecords, addedThisFrame, addedLastFrame,
                  mutatedThisFrame, mutatedLastFrame, removedThisFrame,
                  removedLastFrame, pendingDespawns >>
  /\ UNCHANGED << sideVars, handle >>

\* ------------------------------------------------------------------------
\* Specifications
\* ------------------------------------------------------------------------
MaxSteps == 3
MaxDeepSteps == 5
MaxQuerySteps == 4
MaxTrackSteps == 4

\* the lists whose components all carry value v, and those of one value
UniformLists == {l \in CompLists : \A i, j \in DOMAIN l : l[i][2] = l[j][2]}
PlainLists == {l \in CompLists : \A i \in DOMAIN l : l[i][2] = 1}

\* the lists a spawnBatch factory may return after its first call: the same
\* token set as the first list (a second call happens only for count >= 2)
SameTokens(lists, count, first) ==
  IF count < 2 THEN {first}
  ELSE {l \in lists : Range(TokensOf(l)) = Range(TokensOf(first))}

\* one call of a run of SpecStore
StepStore == steps < MaxSteps /\ steps' = steps + 1 /\ UNCHANGED app

\* Storage, wide: every component list (repeated tokens and differing values
\* included) through spawn, spawnBatch, insert, remove, despawn and update
NextStore ==
  \/ StepStore /\ \E components \in CompLists : Spawn(components)
  \/ StepStore /\ \E count \in 0..MaxBatch, first \in CompLists :
                    \E rest \in SameTokens(CompLists, count, first) :
                      SpawnBatch(count, first, rest)
  \/ StepStore /\ \E e \in Ids, components \in CompLists : Insert(e, components)
  \/ StepStore /\ \E e \in Ids, types \in TokenLists : Remove(e, types)
  \/ StepStore /\ \E e \in Ids : Despawn(e)
  \/ StepStore /\ Update

SpecStore == Init /\ [][NextStore]_vars

\* one call of a run of SpecDeep
StepDeep == steps < MaxDeepSteps /\ steps' = steps + 1 /\ UNCHANGED app

\* Storage, deep: the same calls with every token list and a single value
NextDeep ==
  \/ StepDeep /\ \E components \in PlainLists : Spawn(components)
  \/ StepDeep /\ \E count \in 0..MaxBatch, first \in PlainLists :
                   \E rest \in SameTokens(PlainLists, count, first) :
                     SpawnBatch(count, first, rest)
  \/ StepDeep /\ \E e \in Ids, components \in PlainLists : Insert(e, components)
  \/ StepDeep /\ \E e \in Ids, types \in TokenLists : Remove(e, types)
  \/ StepDeep /\ \E e \in Ids : Despawn(e)
  \/ StepDeep /\ Update

SpecDeep == Init /\ [][NextDeep]_vars

\* one call of a run of SpecQuery
StepQuery == steps < MaxQuerySteps /\ steps' = steps + 1 /\ UNCHANGED app

\* Queries and their cache against structural changes
NextQuery ==
  \/ StepQuery /\ \E components \in UniformLists : Spawn(components)
  \/ StepQuery /\ \E e \in Ids, components \in UniformLists : Insert(e, components)
  \/ StepQuery /\ \E e \in Ids, types \in TokenLists : Remove(e, types)
  \/ StepQuery /\ \E e \in Ids : Despawn(e)
  \/ StepQuery /\ \E tokens \in TokenLists : RegisterArchetype(tokens)
  \/ StepQuery /\ \E types \in QueryArgs : Query(types)
  \/ StepQuery /\ \E types \in QueryArgs : QueryAdded(types)
  \/ StepQuery /\ \E types \in QueryArgs : QueryChanged(types)
  \/ StepQuery /\ Update

SpecQuery == Init /\ [][NextQuery]_vars

\* one call of a run of SpecTrack
StepTrack == steps < MaxTrackSteps /\ steps' = steps + 1 /\ UNCHANGED app

\* Change tracking over ticks (spawn lists carry both values)
NextTrack ==
  \/ StepTrack /\ \E components \in CompLists : Spawn(components)
  \/ StepTrack /\ \E count \in 0..MaxBatch, first \in PlainLists :
                    SpawnBatch(count, first, first)
  \/ StepTrack /\ \E e \in Ids, components \in PlainLists : Insert(e, components)
  \/ StepTrack /\ \E e \in Ids, types \in TokenLists : Remove(e, types)
  \/ StepTrack /\ \E e \in Ids : Despawn(e)
  \/ StepTrack /\ \E e \in Ids, token \in Tokens : GetMut(e, token)
  \/ StepTrack /\ \E types \in QueryArgs : QueryMut(types)
  \/ StepTrack /\ Update

SpecTrack == Init /\ [][NextTrack]_vars

\* a system passed on its own, and systems passed as an array
One(name) == [isArray |-> FALSE, items |-> << name >>]
Many(names) == [isArray |-> TRUE, items |-> names]

\* Event queues: readers, sends between ticks and by a PostUpdate system,
\* reads, resets and ticks.
MaxEventSteps == 8
StepEvents == steps < MaxEventSteps /\ steps' = steps + 1 /\ UNCHANGED app

NextEvents ==
  \/ StepEvents /\ GetEventReader("E")
  \/ StepEvents /\ \E d \in Values : Send("E", d)
  \/ StepEvents /\ \E r \in 1..MaxReaders : Read(r)
  \/ StepEvents /\ \E r \in 1..MaxReaders : Reset(r)
  \/ StepEvents /\ AddSystem(PostUpdate, One("send"), << >>)
  \/ StepEvents /\ Update

SpecEvents == Init /\ [][NextEvents]_vars

\* Event flow through the stages: a system that sends and a system that
\* reads with the first reader, each registered to any of three stages in
\* any order, beside sends and reads between ticks, and ticks.
FlowRegistrations ==
  { [stage |-> st, system |-> One(name), when |-> << >>] :
      st \in {PreUpdate, UpdateStage, Render}, name \in {"send", "recv"} }

MaxFlowSteps == 7
StepFlow == steps < MaxFlowSteps /\ steps' = steps + 1 /\ UNCHANGED app

NextFlow ==
  \/ StepFlow /\ GetEventReader("E")
  \/ StepFlow /\ Send("E", 1)
  \/ StepFlow /\ \E r \in 1..MaxReaders : Read(r)
  \/ StepFlow /\ \E reg \in FlowRegistrations :
                   AddSystem(reg.stage, reg.system, reg.when)
  \/ StepFlow /\ Update

SpecFlow == Init /\ [][NextFlow]_vars

Menu == StateValue("GameState", "menu")
Playing == StateValue("GameState", "playing")

\* Systems: registrations to every built-in stage and one state hook, single
\* and as an array, with and without guards, then init() and ticks.
SysRegistrations ==
  { [stage |-> PreUpdate, system |-> One("mark"), when |-> << >>],
    [stage |-> UpdateStage, system |-> One("raise"), when |-> << >>],
    [stage |-> UpdateStage, system |-> One("mark"), when |-> << "flagOn" >>],
    [stage |-> UpdateStage, system |-> Many(<< "lower", "mark2" >>),
     when |-> << "flagOn" >>],
    [stage |-> UpdateStage, system |-> One("mark2"),
     when |-> << "flagOff", "flagOn" >>],
    [stage |-> PostUpdate, system |-> One("send"), when |-> << >>],
    [stage |-> Render, system |-> One("reap"), when |-> << >>],
    [stage |-> Startup, system |-> Many(<< "raise", "mark" >>), when |-> << >>],
    [stage |-> Startup, system |-> One("mark2"), when |-> << "flagOn" >>],
    [stage |-> OnEnter(Menu), system |-> One("mark"), when |-> << >>] }

MaxSysSteps == 5
StepSys == steps < MaxSysSteps /\ steps' = steps + 1 /\ UNCHANGED app

NextSys ==
  \/ StepSys /\ \E reg \in SysRegistrations : AddSystem(reg.stage, reg.system, reg.when)
  \/ StepSys /\ init
  \/ StepSys /\ Update
  \/ StepSys /\ InsertState("GameState")
  \/ StepSys /\ \E b \in BOOLEAN : SetFlag(b)
  \/ StepSys /\ Spawn(<< << "A", 1 >> >>)
  \/ StepSys /\ Despawn(1)

SpecSys == Init /\ [][NextSys]_vars

\* States: insertState, setState to either value, a system on each of the
\* four hooks, and ticks.
HookRegistrations ==
  { [stage |-> OnEnter(Menu), system |-> One("mark"), when |-> << >>],
    [stage |-> OnExit(Menu), system |-> One("mark2"), when |-> << >>],
    [stage |-> OnEnter(Playing), system |-> One("mark"), when |-> << >>],
    [stage |-> OnExit(Playing), system |-> One("mark2"), when |-> << >>] }

MaxStateSteps == 8
StepState == steps < MaxStateSteps /\ steps' = steps + 1 /\ UNCHANGED app

NextState ==
  \/ StepState /\ InsertState("GameState")
  \/ StepState /\ \E sv \in {Menu, Playing} : SetState(sv)
  \/ StepState /\ \E reg \in HookRegistrations :
                    AddSystem(reg.stage, reg.system, reg.when)
  \/ StepState /\ Update

SpecState == Init /\ [][NextState]_vars

\* Transitions: the four hooks, a system calling setState(Playing) in each
\* of the four tick stages, setState between ticks, and ticks.
TransRegistrations ==
  HookRegistrations \cup
  { [stage |-> st, system |-> One("play"), when |-> << >>] :
      st \in {PreUpdate, UpdateStage, PostUpdate, Render} }

MaxTransSteps == 6
StepTrans == steps < MaxTransSteps /\ steps' = steps + 1 /\ UNCHANGED app

NextTrans ==
  \/ StepTrans /\ InsertState("GameState")
  \/ StepTrans /\ \E sv \in {Menu, Playing} : SetState(sv)
  \/ StepTrans /\ \E reg \in TransRegistrations :
                    AddSystem(reg.stage, reg.system, reg.when)
  \/ StepTrans /\ Update

SpecTrans == Init /\ [][NextTrans]_vars

\* Hook systems that change the state: a system calling setState(Playing) on
\* each of the four hooks and in PreUpdate, setState between ticks, and ticks.
HookSetRegistrations ==
  { [stage |-> st, system |-> One("play"), when |-> << >>] :
      st \in {OnEnter(Menu), OnExit(Menu), OnEnter(Playing), OnExit(Playing),
              PreUpdate} }

MaxHookSteps == 6
StepHooks == steps < MaxHookSteps /\ steps' = steps + 1 /\ UNCHANGED app

NextHooks ==
  \/ StepHooks /\ InsertState("GameState")
  \/ StepHooks /\ \E sv \in {Menu, Playing} : SetState(sv)
  \/ StepHooks /\ \E reg \in HookSetRegistrations :
                    AddSystem(reg.stage, reg.system, reg.when)
  \/ StepHooks /\ Update

SpecHooks == Init /\ [][NextHooks]_vars

\* Exceptions: the system boom and the guard sane throw while the Flag
\* resource is not set.  Systems that despawn, send and change the state run
\* before them, a system of the last stage after them.
ThrowRegistrations ==
  { [stage |-> PreUpdate, system |-> One("reap"), when |-> << >>],
    [stage |-> PreUpdate, system |-> One("send"), when |-> << >>],
    [stage |-> PreUpdate, system |-> One("play"), when |-> << >>],
    [stage |-> PreUpdate, system |-> One("boom"), when |-> << >>],
    [stage |-> OnEnter(Menu), system |-> One("boom"), when |-> << >>],
    [stage |-> UpdateStage, system |-> One("mark"), when |-> << "sane" >>],
    [stage |-> Render, system |-> One("mark2"), when |-> << >>] }

MaxThrowSteps == 7
StepThrow == steps < MaxThrowSteps /\ steps' = steps + 1 /\ UNCHANGED app

NextThrow ==
  \/ StepThrow /\ InsertState("GameState")
  \/ StepThrow /\ Spawn(<< << "A", 1 >> >>)
  \/ StepThrow /\ SetFlag(TRUE)
  \/ StepThrow /\ \E reg \in ThrowRegistrations :
                    AddSystem(reg.stage, reg.system, reg.when)
  \/ StepThrow /\ Update

SpecThrow == Init /\ [][NextThrow]_vars

\* State tokens: the three machines are inserted and set in any order; hook
\* systems are registered with the values of GameState only.
AllStateValues ==
  {StateValue(k, v) : k \in StateTokens, v \in StateValues}
    \ {StateValue("Door", "menu"), StateValue("Door", "playing"),
       StateValue("GameState", "open"), StateValue("GameState", "shut"),
       StateValue("Screen", "open"), StateValue("Screen", "shut")}

MaxTokenSteps == 5
StepTokens == steps < MaxTokenSteps /\ steps' = steps + 1 /\ UNCHANGED app

NextTokens ==
  \/ StepTokens /\ \E k \in StateTokens : InsertState(k)
  \/ StepTokens /\ \E sv \in AllStateValues : SetState(sv)
  \/ StepTokens /\ \E reg \in HookRegistrations :
                     AddSystem(reg.stage, reg.system, reg.when)
  \/ StepTokens /\ Update

SpecTokens == Init /\ [][NextTokens]_vars

\* component lists that name no token twice
DistinctLists ==
  {l \in UniformLists : \A i, j \in DOMAIN l : l[i][1] = l[j][1] => i = j}

\* every record names the row that holds its entity, and no entity has two rows
Sound ==
  /\ \A e \in Ids :
       Exists(e) => /\ InBounds(entityRecords[e])
                    /\ ArchetypeOf(e).entities[entityRecords[e].row] = e
  /\ \A i \in DOMAIN archetypes :
       \A row \in DOMAIN archetypes[i].entities :
         entityRecords[archetypes[i].entities[row]] = [archetype |-> i, row |-> row]

\* A kept handle: one handle is made and used while the same entities are
\* also reached through handles made for a single call.  A run ends where a
\* call has left a record that names no row of its entity.
MaxHandleSteps == 5
StepHandle == steps < MaxHandleSteps /\ Sound /\ steps' = steps + 1 /\ UNCHANGED app

NextHandle ==
  \/ StepHandle /\ \E components \in DistinctLists : Spawn(components)
  \/ StepHandle /\ \E e \in Ids : EntityOps(e)
  \/ StepHandle /\ \E components \in DistinctLists : HInsert(components)
  \/ StepHandle /\ \E types \in TokenLists : HRemove(types)
  \/ StepHandle /\ \E token \in Tokens : HGetMut(token)
  \/ StepHandle /\ HDespawn
  \/ StepHandle /\ \E e \in Ids, components \in DistinctLists : Insert(e, components)
  \/ StepHandle /\ \E e \in Ids, types \in TokenLists : Remove(e, types)
  \/ StepHandle /\ Update

SpecHandle == Init /\ [][NextHandle]_vars

\* Three entities: enough for an entity to watch two others of its archetype
\* go in one tick.  The entities come from spawnBatch, whose factory may
\* name a token twice and may give the first entity another value than the
\* later ones.
MaxCrowdSteps == 4
\* the calls that pass at most one argument
ShortLists(lists) == {l \in lists : Len(l) <= 1}
StepCrowd == steps < MaxCrowdSteps /\ steps' = steps + 1 /\ UNCHANGED app

NextCrowd ==
  \/ StepCrowd /\ \E count \in 1..MaxCrowd, first \in UniformLists :
                    \E rest \in SameTokens(UniformLists, count, first) :
                      SpawnBatchUpTo(MaxCrowd, count, first, rest)
  \/ StepCrowd /\ \E e \in Slots, components \in ShortLists(CompLists) :
                    Insert(e, components)
  \/ StepCrowd /\ \E e \in Slots, types \in ShortLists(TokenLists) :
                    Remove(e, types)
  \/ StepCrowd /\ \E e \in Slots : Despawn(e)
  \/ StepCrowd /\ Update

SpecCrowd == Init /\ [][NextCrowd]_vars

\* Entities without components: spawn() with an empty list, removes that
\* take the last component, despawns, query(Entity) and ticks.
EntityArgs == { << Entity >>, << Entity, Req("A") >> }

MaxBareSteps == 5
StepBare == steps < MaxBareSteps /\ steps' = steps + 1 /\ UNCHANGED app

NextBare ==
  \/ StepBare /\ \E components \in DistinctLists : Spawn(components)
  \/ StepBare /\ \E e \in Ids, components \in ShortLists(CompLists) :
                   Insert(e, components)
  \/ StepBare /\ \E e \in Ids, types \in TokenLists : Remove(e, types)
  \/ StepBare /\ \E e \in Ids : Despawn(e)
  \/ StepBare /\ \E types \in EntityArgs : Query(types)
  \/ StepBare /\ Update

SpecBare == Init /\ [][NextBare]_vars

\* Read-only calls between spawns, mutable accesses and ticks; the history
\* notes the entities each read looks at
ReadArgs == { << Entity, Req("A") >>, << Req("A") >> }
MaxReadSteps == 5
StepRead == steps < MaxReadSteps /\ steps' = steps + 1 /\ UNCHANGED app

NextRead ==
  \/ StepRead /\ \E components \in PlainLists : Spawn(components)
  \/ StepRead /\ \E e \in Ids, token \in Tokens : GetMut(e, token)
  \/ StepRead /\ \E e \in Ids, token \in Tokens : CallGet(e, token)
  \/ StepRead /\ \E e \in Ids, types \in TokenLists : CallHas(e, types)
  \/ StepRead /\ \E e \in Ids : CallInspect(e)
  \/ StepRead /\ \E types \in ReadArgs : QueryNoting(types, Selected(types))
  \/ StepRead /\ \E types \in ReadArgs :
                    QueryTrackedNoting(addedLastFrame, types, TRUE)
  \/ StepRead /\ \E types \in ReadArgs :
                    QueryTrackedNoting(mutatedLastFrame, types, TRUE)
  \/ StepRead /\ \E types \in ReadArgs : QueryRemoved(types)
  \/ StepRead /\ \E token \in StateTokens : GetState(token)
  \/ StepRead /\ GetResource
  \/ StepRead /\ Update

SpecRead == Init /\ [][NextRead]_vars

\* ------------------------------------------------------------------------
\* App: run, runAsync, stop, resume and the animation frames
\* ------------------------------------------------------------------------
\* The body of run() entered with the fields a: init() unless initialised,
\* running = true, and one requestAnimationFrame(loop).  animationFrameId is
\* assigned and never read (nothing cancels a request), so it has no place
\* in the state.
RunFrom(a) ==
  /\ IF ~a.initialised THEN init ELSE UNCHANGED worldVars
  /\ app' = [a EXCEPT !.initialised = TRUE, !.running = TRUE,
                      !.next = @ + 1,
                      !.startups = IF a.initialised THEN @ ELSE @ + 1,
                      !.halted = FALSE]

\* App calls come from tasks between animation frames
AppRun ==
  /\ app.due = 0
  /\ RunFrom([app EXCEPT !.reruns = IF app.running THEN @ + 1 ELSE @])

\* runAsync() up to its await: initAsync() has an empty body and returns a
\* resolved promise
AppRunAsync ==
  /\ app.due = 0
  /\ app' = [app EXCEPT !.awaiting = @ + 1, !.asyncs = @ + 1]
  /\ UNCHANGED worldVars

\* runAsync() after its await: initialised = true; this.run()
AppContinue ==
  /\ app.due = 0 /\ app.awaiting > 0
  /\ RunFrom([app EXCEPT !.awaiting = @ - 1, !.initialised = TRUE,
                         !.reruns = IF app.running THEN @ + 1 ELSE @])

AppStop ==
  /\ app.due = 0
  /\ app' = [app EXCEPT !.running = FALSE, !.halted = TRUE]
  /\ UNCHANGED worldVars

AppResume ==
  /\ app.due = 0
  /\ IF ~app.running THEN RunFrom([app EXCEPT !.running = TRUE])
     ELSE UNCHANGED << app, worldVars >>

\* an animation frame begins: the callbacks requested so far are the ones it
\* calls; a callback requested during the frame waits for the next one.  The
\* continuation of an await is a microtask and runs before any frame.
BeginFrame ==
  /\ app.due = 0 /\ app.awaiting = 0 /\ app.next > 0
  /\ app' = [app EXCEPT !.due = app.next, !.next = 0, !.frames = @ + 1,
                        !.inFrame = 0]
  /\ UNCHANGED worldVars

\* loop(currentTime), one of the callbacks of the frame.  The world of the
\* model holds no Time resource, so the branch that writes delta is not
\* taken.
Callback ==
  /\ app.due > 0
  /\ IF ~app.running
     THEN /\ app' = [app EXCEPT !.due = @ - 1]
          /\ UNCHANGED worldVars
     ELSE /\ Update
          /\ app' = [app EXCEPT !.due = @ - 1, !.next = @ + 1,
                                !.inFrame = @ + 1, !.updates = @ + 1]

AppRegistrations ==
  { [stage |-> Startup, system |-> One("raise"), when |-> << >>],
    [stage |-> UpdateStage, system |-> One("mark"), when |-> << "flagOn" >>] }

MaxAppSteps == 8
StepApp == steps < MaxAppSteps /\ steps' = steps + 1

NextApp ==
  \/ StepApp /\ app = AppInit /\ UNCHANGED app
             /\ \E reg \in AppRegistrations : AddSystem(reg.stage, reg.system, reg.when)
  \/ StepApp /\ AppRun
  \/ StepApp /\ AppRunAsync
  \/ StepApp /\ AppContinue
  \/ StepApp /\ AppStop
  \/ StepApp /\ AppResume
  \/ StepApp /\ BeginFrame
  \/ StepApp /\ Callback

SpecApp == Init /\ [][NextApp]_vars

C2_ColumnsAligned ==
  \A i \in DOMAIN archetypes :
    /\ DOMAIN archetypes[i].columns = SigSet(archetypes[i])
    /\ \A t \in SigSet(archetypes[i]) :
         Len(archetypes[i].columns[t]) = Len(archetypes[i].entities)

\* the value a component list supplies for token t: that of its last t
SuppliedValue(components, t) ==
  LET at == {i \in DOMAIN components : components[i][1] = t}
  IN components[CHOOSE i \in at : \A j \in at : j <= i][2]

\* C3: an insert or remove that moves e to another archetype leaves get(e, t)
\* as it was for every kept token the call does not supply, and makes it the
\* supplied value for every supplied token.
C3_MigrationKeepsValues ==
  [][ /\ \A e \in Ids, components \in CompLists :
           ( /\ Insert(e, components)
             /\ Exists(e)
             /\ Range(TokensOf(components)) \ Sig(e) # {} )
           => /\ \A t \in Sig(e) \ Range(TokensOf(components)) :
                   Get(e, t)' = Get(e, t)
              /\ \A t \in Range(TokensOf(components)) :
                   Get(e, t)' = SuppliedValue(components, t)
      /\ \A e \in Ids, types \in TokenLists :
           ( /\ Remove(e, types)
             /\ Exists(e)
             /\ Range(types) \cap Sig(e) # {}
             /\ Sig(e) \ Range(types) # {} )
           => \A t \in Sig(e) \ Range(types) : Get(e, t)' = Get(e, t)
    ]_vars

\* the tuple query(types) owes entity e
ExpectedTuple(e, types) ==
  [i \in DOMAIN OutputTypes(types) |->
     IF OutputTypes(types)[i] = Entity THEN e ELSE Get(e, OutputTypes(types)[i].tok)]

\* C4: query(types) is what an uncached scan returns, and holds exactly one
\* tuple per live entity whose signature has every required token and no
\* excluded one, with the entity's values in argument order.
C4_QueryMatchesLiveEntities ==
  \A types \in QueryArgs :
    LET res == QueryResult(types)
    IN /\ res = QueryRows(archetypes,
                          ScanArchetypes(archetypes, 1, RequiredOf(types),
                                         ExcludedOf(types)),
                          OutputTypes(types))
       /\ Len(res) = Cardinality(Selected(types))
       /\ \A i \in DOMAIN res : \E e \in Selected(types) : res[i] = ExpectedTuple(e, types)
       /\ \A e \in Selected(types) :
            Cardinality({i \in DOMAIN res : res[i] = ExpectedTuple(e, types)})
              = Cardinality({e2 \in Selected(types) :
                               ExpectedTuple(e2, types) = ExpectedTuple(e, types)})

\* cached archetype lists are in use, one of a query with an exclusion, and
\* one yields two tuples
C4_Witness ==
  /\ \E types \in QueryArgs :
       /\ QueryKey(types) \in DOMAIN queryCache
       /\ Len(QueryResult(types)) = 2
  /\ \E types \in QueryArgs :
       /\ QueryKey(types) \in DOMAIN queryCache
       /\ ExcludedOf(types) # << >>

\* C5: the last-tick sets change only when an update() finishes, and then
\* become exactly the marks of the tick that ends (the accumulators, with the
\* removals of the despawns finalized by that update), while the accumulators
\* become empty.
C5_MarksRotateOncePerUpdate ==
  [][ IF hist'.ticks # hist.ticks
      THEN /\ addedLastFrame' = addedThisFrame
           /\ mutatedLastFrame' = mutatedThisFrame
           /\ \A t \in Tokens :
                Range(removedLastFrame'[t]) =
                  Range(removedThisFrame[t])
                    \cup {e \in Range(pendingDespawns) : t \in Sig(e)}
           /\ addedThisFrame' = EmptyMarks
           /\ mutatedThisFrame' = EmptyMarks
           /\ removedThisFrame' = EmptyRemoved
      ELSE /\ addedLastFrame' = addedLastFrame
           /\ mutatedLastFrame' = mutatedLastFrame
           /\ removedLastFrame' = removedLastFrame
    ]_vars

\* an update has made marks of all three kinds visible and emptied the
\* accumulators
C5_Witness ==
  /\ hist.ticks > 0
  /\ addedLastFrame # EmptyMarks
  /\ mutatedLastFrame # EmptyMarks
  /\ removedLastFrame # EmptyRemoved
  /\ addedThisFrame = EmptyMarks

\* C6: between two updates, queryAdded(Entity, T) holds exactly one row
\* [e, value of T] for every entity that received T in the tick before and
\* still holds it, and no row of an entity that did not receive T in that tick.
C6_AddedVisibleOneTick ==
  \A t \in Tokens :
    LET res == QueryAddedResult(<< Entity, Req(t) >>)
    IN /\ \A e \in hist.recvLast[t] :
            t \in Sig(e) =>
              /\ Cardinality({i \in DOMAIN res : res[i][1] = e}) = 1
              /\ \E i \in DOMAIN res : res[i] = << e, Get(e, t) >>
       /\ \A i \in DOMAIN res : res[i][1] \in hist.recvLast[t]

\* an entity that received a token by insert in the last tick is reported,
\* while an older holder of the token is not
C6_Witness ==
  \E t \in Tokens, e \in Ids, e2 \in Ids :
    /\ e \in hist.recvLast[t] /\ t \in Sig(e)
    /\ e2 \notin hist.recvLast[t] /\ t \in Sig(e2)
    /\ Len(QueryAddedResult(<< Entity, Req(t) >>)) = 1

\* the entity of every tuple of query, in the order of the tuples
RECURSIVE VisitedEntities(_, _)
VisitedEntities(archs, list) ==
  IF list = << >> THEN << >>
  ELSE archs[Head(list)].entities \o VisitedEntities(archs, Tail(list))

\* the rows of a sequence at the positions whose entity is in a set
RECURSIVE RowsOf(_, _, _)
RowsOf(rows, entities, wanted) ==
  IF rows = << >> THEN << >>
  ELSE (IF Head(entities) \in wanted THEN << Head(rows) >> ELSE << >>)
       \o RowsOf(Tail(rows), Tail(entities), wanted)

\* C7: for every argument list, queryAdded returns the tuples of query whose
\* entity is in the added-last-tick set of a requested component, and
\* queryChanged those whose entity is in the mutated-last-tick set of one.
C7_TrackedQueriesFilterByEntity ==
  \A types \in QueryArgs :
    LET rows     == QueryResult(types)
        entities == VisitedEntities(archetypes,
                      getMatchingArchetypes(queryCache, archetypes, types))
    IN /\ QueryAddedResult(types) =
            RowsOf(rows, entities, MarkedEntities(addedLastFrame, RequiredOf(types)))
       /\ QueryChangedResult(types) =
            RowsOf(rows, entities, MarkedEntities(mutatedLastFrame, RequiredOf(types)))

\* C8: between two updates, queryRemoved(T) returns, each once, exactly the ids
\* that lost T in the tick before, by remove() or by a finalized despawn.
C8_RemovedVisibleOneTick ==
  \A t \in Tokens :
    LET res == QueryRemovedResult(<< Req(t) >>)
    IN /\ Range(res) = hist.remLast[t]
       /\ Len(res) = Cardinality(Range(res))

\* a finalized despawn and a remove() of the last tick are both reported
C8_Witness ==
  \E t \in Tokens, e \in Ids, e2 \in Ids :
    /\ e # e2
    /\ {e, e2} \subseteq Range(QueryRemovedResult(<< Req(t) >>))
    /\ ~Exists(e)
    /\ Exists(e2)

\* C9: an entity whose held component was reached through getMut or queryMut
\* is reported by queryChanged(Entity, C) during the next tick if it still
\* holds C; queryMut returns what query returns; and a queryMut call adds marks
\* only for requested components of entities its arguments select.
C9_MutableAccessIsChange ==
  /\ [](\A t \in Tokens : \A e \in hist.accLast[t] :
          t \in Sig(e) =>
            \E i \in DOMAIN QueryChangedResult(<< Entity, Req(t) >>) :
              QueryChangedResult(<< Entity, Req(t) >>)[i][1] = e)
  /\ [](\A types \in QueryArgs : QueryMutResult(types) = QueryResult(types))
  /\ [][\A types \in QueryArgs :
          QueryMut(types) =>
            \A t \in Tokens :
              mutatedThisFrame'[t] \ mutatedThisFrame[t] \subseteq
                (IF t \in Range(RequiredOf(types)) THEN Selected(types) ELSE {})
       ]_vars

\* an entity is reported as changed though no insert wrote to it
C9_Witness ==
  \E t \in Tokens, e \in Ids :
    /\ e \in hist.accLast[t]
    /\ e \notin hist.overLast[t]
    /\ t \in Sig(e)
    /\ QueryChangedResult(<< Entity, Req(t) >>) # << >>

\* C10: an entity whose held component an insert overwrote is reported by
\* queryChanged(Entity, C) during the next tick if it still holds C, whether
\* or not that insert also added components.
C10_OverwriteIsChange ==
  \A t \in Tokens : \A e \in hist.overLast[t] :
    t \in Sig(e) =>
      \E i \in DOMAIN QueryChangedResult(<< Entity, Req(t) >>) :
        QueryChangedResult(<< Entity, Req(t) >>)[i][1] = e

\* the entities of the tuples query(types) returns
QueryEntities(types) ==
  Range(VisitedEntities(archetypes,
                        getMatchingArchetypes(queryCache, archetypes, types)))

\* C11: despawn(e) changes nothing that get, has, inspect or a query returns,
\* and a second despawn(e) changes nothing at all; an entity with a pending
\* despawn stays live through every later call of the tick except a remove of
\* its components, and is returned by the queries that select it; once the
\* update has completed it is in no query result, get is undefined and has is
\* false for every token.
C11_DespawnIsDeferred ==
  /\ [][ /\ \A e \in Ids :
              Despawn(e) =>
                /\ \A t \in Tokens : /\ Get(e, t)' = Get(e, t)
                                     /\ Has(e, << t >>)' = Has(e, << t >>)
                /\ Inspect(e)' = Inspect(e)
                /\ \A types \in QueryArgs : QueryResult(types)' = QueryResult(types)
                /\ e \in Range(pendingDespawns) => pendingDespawns' = pendingDespawns
         /\ \A e \in Range(pendingDespawns) :
              IF hist'.ticks # hist.ticks
              THEN /\ \A t \in Tokens : /\ Get(e, t)' = Undefined
                                        /\ ~Has(e, << t >>)'
                   /\ Inspect(e)' = << >>
                   /\ \A types \in QueryArgs : e \notin QueryEntities(types)'
              ELSE Exists(e) => \/ Exists(e)'
                                \/ \E types \in TokenLists : Remove(e, types)
       ]_vars
  /\ [](\A e \in Range(pendingDespawns) : \A types \in QueryArgs :
          e \in Selected(types) => e \in QueryEntities(types))

\* an update has finalized the despawn of an entity that held a component,
\* while another entity lives on and is returned by a query
C11_Witness ==
  \E e \in Ids, e2 \in Ids, t \in Tokens :
    /\ e <= entityCounter
    /\ ~Exists(e)
    /\ e \in hist.remLast[t]
    /\ pendingDespawns = << >>
    /\ Exists(e2)
    /\ e2 \in QueryEntities(<< Entity >>)

\* ------------------------------------------------------------------------
\* Events
\* ------------------------------------------------------------------------
\* how often the reader r was handed the item with this id
Delivered(r, id) == Cardinality({i \in DOMAIN evHist.got[r] : evHist.got[r][i] = id})

SentIds == {evHist.sent[k].id : k \in DOMAIN evHist.sent}

\* a read() of one reader changes neither the queue nor what a read() of
\* another reader returns
ReadsAreIndependent ==
  \A r \in 1..MaxReaders :
    Read(r) =>
      /\ eventQueues' = eventQueues
      /\ \A r2 \in DOMAIN readers :
           r2 # r => /\ readers'[r2] = readers[r2]
                     /\ ReadResult(eventQueues', readers'[r2])
                          = ReadResult(eventQueues, readers[r2])

AtOrAbove(queues, reader, n) ==
  SelectSeq(queues[reader.token].events, LAMBDA e : e.id >= n)

\* the items sent after the first n, as far as the queue still retains them
SentSince(queues, reader, n) ==
  SelectSeq(SubSeq(evHist.sent, n + 1, Len(evHist.sent)),
            LAMBDA x : x.id \in RetainedIds(queues, reader))

\* C13: read() returns, in send order, exactly the retained items whose id is
\* at or above the cursor and sets the cursor to one past the highest id
\* returned; a read that returns nothing leaves the cursor unchanged; a second
\* read right after returns the empty list; and between reads with sends in
\* between, what the next read returns is the batch sent since the last read.
C13_ReadReturnsUnreadInOrder ==
  /\ [][ \A r \in 1..MaxReaders :
           Read(r) =>
             LET exp == AtOrAbove(eventQueues, readers[r], readers[r].lastReadId)
                 res == ReadResult(eventQueues, readers[r])
             IN /\ res = [i \in DOMAIN exp |-> exp[i].data]
                /\ evHist'.got[r] = evHist.got[r] \o [i \in DOMAIN exp |-> exp[i].id]
                /\ \A i, j \in DOMAIN exp : i < j => exp[i].id < exp[j].id
                /\ readers'[r].lastReadId =
                     IF exp = << >> THEN readers[r].lastReadId
                     ELSE exp[Len(exp)].id + 1
                /\ \A i \in DOMAIN exp : exp[i].id < readers'[r].lastReadId
                /\ ReadResult(eventQueues', readers'[r]) = << >>
       ]_vars
  /\ [](\A r \in DOMAIN readers :
          evHist.mark[r] >= 0 =>
            ReadResult(eventQueues, readers[r])
              = [i \in DOMAIN SentSince(eventQueues, readers[r], evHist.mark[r]) |->
                   SentSince(eventQueues, readers[r], evHist.mark[r])[i].data])

\* a reader that was handed two items by one read has a new item waiting
C13_Witness ==
  \E r \in DOMAIN readers :
    /\ evHist.mark[r] = 2
    /\ Len(evHist.got[r]) = 2
    /\ Len(evHist.sent) = 3
    /\ ReadResult(eventQueues, readers[r]) = << evHist.sent[3].data >>

\* the items sent so far that fewer than two completed updates have followed,
\* in send order
YoungItems == SelectSeq(evHist.sent, LAMBDA x : hist.ticks - x.tick < 2)

\* C14: an item is in its queue exactly until the second update() that
\* completes after it was sent, read or not, sent between ticks or by a system
\* during a tick: the queue holds the items that fewer than two completed
\* updates have followed, and reset() followed by read() returns exactly them.
C14_ItemsLastTwoTicks ==
  /\ [](\A k \in DOMAIN evHist.sent :
          evHist.sent[k].id \in {eventQueues["E"].events[i].id :
                                   i \in DOMAIN eventQueues["E"].events}
            <=> hist.ticks - evHist.sent[k].tick < 2)
  /\ [][ \A r \in 1..MaxReaders :
           Reset(r) =>
             ReadResult(eventQueues', readers'[r])
               = [i \in DOMAIN YoungItems |-> YoungItems[i].data]
       ]_vars

\* after a reset the reader is offered an item a system sent during the last
\* tick, while an item sent before two ticks ago and never read is gone
C14_Witness ==
  \E r \in DOMAIN readers, k, n \in DOMAIN evHist.sent :
    /\ evHist.wasReset[r] /\ evHist.mark[r] = -1
    /\ evHist.sent[k].inTick /\ hist.ticks - evHist.sent[k].tick = 1
    /\ evHist.sent[k].id \in RetainedIds(eventQueues, readers[r])
    /\ ~evHist.sent[n].inTick /\ hist.ticks - evHist.sent[n].tick = 2
    /\ evHist.sent[n].id \notin RetainedIds(eventQueues, readers[r])
    /\ \A q \in DOMAIN readers : Delivered(q, evHist.sent[n].id) = 0

\* the cursor of a reader constructed now: the id of the oldest item that fewer
\* than two completed updates have followed, or the number of ids issued so
\* far (ids start at 0) when there is none
FreshCursor ==
  IF YoungItems # << >> THEN YoungItems[1].id ELSE Len(evHist.sent)

Phase(stage) ==
  CASE stage.kind = "PreUpdate" -> 1
    [] stage.kind \in {"OnExit", "OnEnter"} -> 2
    [] stage.kind = "Update" -> 3
    [] stage.kind = "PostUpdate" -> 4
    [] stage.kind = "Render" -> 5
    [] OTHER -> 0

\* the visits of a call that belong to one stage, in the order they were made
VisitsOf(visits, stage) == SelectSeq(visits, LAMBDA v : v.stage = stage)

\* the registrations made to one stage, in call order
RegsOf(stage) == SelectSeq(sysHist.regs, LAMBDA g : g.stage = stage)

RanIn(visits, name, stage) ==
  \E i \in DOMAIN visits :
    visits[i].system = name /\ visits[i].stage = stage /\ visits[i].ran

\* C16: every update() runs PreUpdate, the state-transition dispatch, Update,
\* PostUpdate and Render in this order and each once, whatever the order of
\* the registrations, and only then the three finalization passes, each once:
\* an entity despawned by a Render system is removed by this update and its
\* removal mark is rotated by this update; the queue of an item sent by a
\* system has its frame advanced once by this update; the change-tracking
\* buffers are rotated once.
C16_UpdatePhasesInOrder ==
  [][ Update =>
        LET v == log'.visits
        IN /\ log'.call = "update"
           /\ \A i, j \in DOMAIN v : i < j => Phase(v[i].stage) <= Phase(v[j].stage)
           /\ \A i \in DOMAIN v : Phase(v[i].stage) >= 1
           /\ \A stage \in {PreUpdate, UpdateStage, PostUpdate, Render} :
                Len(VisitsOf(v, stage)) = Len(RegsOf(stage))
           /\ \A i \in DOMAIN states :
                /\ Len(VisitsOf(v, OnEnter(StateValue(states[i].token, states[i].current))))
                     = IF states[i].dirty
                       THEN Len(RegsOf(OnEnter(StateValue(states[i].token,
                                                          states[i].current))))
                       ELSE 0
                /\ ~states'[i].dirty
           /\ (RanIn(v, "reap", Render) /\ Exists(1)) =>
                /\ ~Exists(1)'
                /\ \A t \in Sig(1) : 1 \in Range(removedLastFrame'[t])
           /\ pendingDespawns' = << >>
           /\ \A k \in DOMAIN eventQueues' :
                /\ eventQueues'[k].currentFrame
                     = (IF k \in DOMAIN eventQueues
                        THEN eventQueues[k].currentFrame ELSE 0) + 1
                /\ \A n \in DOMAIN evHist'.sent :
                     n > Len(evHist.sent) =>
                       evHist'.sent[n].id \in {eventQueues'[k].events[i].id :
                                                 i \in DOMAIN eventQueues'[k].events}
           /\ addedLastFrame' = addedThisFrame
           /\ mutatedLastFrame' = mutatedThisFrame
           /\ addedThisFrame' = EmptyMarks
           /\ mutatedThisFrame' = EmptyMarks
           /\ removedThisFrame' = EmptyRemoved
           /\ hist'.ticks = hist.ticks + 1
    ]_vars

\* Render was registered before PreUpdate; the last update ran the PreUpdate
\* system first and the Render system last, and the entity the Render system
\* despawned is gone with its removal mark in last tick's buffer
C16_Witness ==
  /\ log.call = "update"
  /\ Len(sysHist.regs) >= 2
  /\ sysHist.regs[1].stage = Render
  /\ sysHist.regs[2].stage = PreUpdate
  /\ Len(log.visits) = 2
  /\ log.visits[1].stage = PreUpdate /\ log.visits[1].ran
  /\ log.visits[2].stage = Render /\ log.visits[2].system = "reap" /\ log.visits[2].ran
  /\ entityCounter >= 1 /\ ~Exists(1)
  /\ 1 \in Range(removedLastFrame["A"])

\* the systems of a list of visits or registrations, in order
SystemsOf(list) == [i \in DOMAIN list |-> list[i].system]

\* C17: whenever init() or update() runs a stage, the systems it reaches are
\* the registrations of that stage in call order, the elements of an array
\* registration in array order at the place of their call, each once.
C17_RegistrationOrder ==
  [][ (init \/ Update) =>
        \A stage \in Stages :
          \/ VisitsOf(log'.visits, stage) = << >>
          \/ /\ SystemsOf(VisitsOf(log'.visits, stage)) = SystemsOf(RegsOf(stage))
             /\ \A i \in DOMAIN RegsOf(stage) :
                  Len(VisitsOf(log'.visits, stage)[i].evals)
                    <= Len(RegsOf(stage)[i].conditions)
    ]_vars

\* the second update in a row ran the Update stage as raise, lower, mark2:
\* a single registration followed by the two elements of an array
C17_Witness ==
  /\ log.call = "update"
  /\ hist.ticks = 2
  /\ Len(sysHist.regs) = 3
  /\ SystemsOf(sysHist.regs) = << "raise", "lower", "mark2" >>
  /\ SystemsOf(VisitsOf(log.visits, UpdateStage)) = << "raise", "lower", "mark2" >>
  /\ log.visits[2].ran

\* the Flag resource after the first n of these visits, from what they ran
RECURSIVE FlagAfter(_, _, _)
FlagAfter(visits, n, f) ==
  IF n = 0 THEN f
  ELSE LET before == FlagAfter(visits, n - 1, f)
       IN IF visits[n].ran /\ visits[n].system = "raise" THEN TRUE
          ELSE IF visits[n].ran /\ visits[n].system = "lower" THEN FALSE
          ELSE before

\* what a guard answers when the Flag resource is f
Holds(c, f) == IF c = "flagOn" THEN f ELSE ~f

\* C18: in every stage run of init() or update(), a system runs if and only
\* if every predicate of its when list answers true on the world as the
\* earlier systems of the call left it; the predicates are evaluated in list
\* order and no further than the first false; a system without a when list
\* always runs.
C18_GuardsDecide ==
  [][ (init \/ Update) =>
        /\ \A n \in DOMAIN log'.visits :
             log'.visits[n].flg = FlagAfter(log'.visits, n - 1, flag)
        /\ \A stage \in Stages :
             \A i \in DOMAIN VisitsOf(log'.visits, stage) :
               LET v == VisitsOf(log'.visits, stage)[i]
                   when == RegsOf(stage)[i].conditions
               IN /\ Len(v.evals) <= Len(when)
                  /\ \A j \in DOMAIN v.evals :
                       /\ v.evals[j].cond = when[j]
                       /\ v.evals[j].value = Holds(when[j], v.flg)
                       /\ j < Len(v.evals) => v.evals[j].value
                  /\ Len(v.evals) < Len(when) => ~v.evals[Len(v.evals)].value
                  /\ v.ran <=> (\A j \in DOMAIN when : Holds(when[j], v.flg))
                  /\ when = << >> => v.ran
    ]_vars

\* the only registered system was skipped by an earlier tick and ran in the
\* last one
C18_Witness ==
  /\ log.call = "update"
  /\ Len(sysHist.regs) = 1
  /\ sysHist.regs[1].conditions = << "flagOn" >>
  /\ Len(log.visits) = 1
  /\ log.visits[1].ran
  /\ << log.visits[1].stage, log.visits[1].system >> \in sysHist.skipped

\* C19: update() reaches no system registered to Startup; init() reaches the
\* Startup registrations, each once, in registration order, runs those whose
\* guards hold and no system of another stage, and performs no finalization:
\* entities, pending despawns, change-tracking buffers, queue frames and
\* retained items, and the dirty states are as before.
C19_StartupOnlyInInit ==
  [][ /\ Update => \A n \in DOMAIN log'.visits : log'.visits[n].stage # Startup
      /\ init =>
           /\ log'.call = "init"
           /\ \A n \in DOMAIN log'.visits : log'.visits[n].stage = Startup
           /\ SystemsOf(log'.visits) = SystemsOf(RegsOf(Startup))
           /\ \A n \in DOMAIN log'.visits :
                log'.visits[n].ran
                  <=> \A j \in DOMAIN RegsOf(Startup)[n].conditions :
                        Holds(RegsOf(Startup)[n].conditions[j],
                              FlagAfter(log'.visits, n - 1, flag))
           /\ entityRecords' = entityRecords
           /\ archetypes' = archetypes
           /\ pendingDespawns' = pendingDespawns
           /\ << addedThisFrame, addedLastFrame, mutatedThisFrame, mutatedLastFrame,
                 removedThisFrame, removedLastFrame >>'
                = << addedThisFrame, addedLastFrame, mutatedThisFrame,
                     mutatedLastFrame, removedThisFrame, removedLastFrame >>
           /\ eventQueues' = eventQueues
           /\ states' = states
           /\ hist'.ticks = hist.ticks
    ]_vars

\* init() ran the two Startup systems of an array registration while a
\* PreUpdate system was registered and a despawn was pending, which still is
C19_Witness ==
  /\ log.call = "init"
  /\ SystemsOf(log.visits) = << "raise", "mark" >>
  /\ \A n \in DOMAIN log.visits : log.visits[n].ran
  /\ \E i \in DOMAIN sysHist.regs : sysHist.regs[i].stage = PreUpdate
  /\ pendingDespawns = << 1 >>
  /\ Exists(1)

\* ------------------------------------------------------------------------
\* States
\* ------------------------------------------------------------------------
\* the visits of a call that belong to a hook of this state token
HookVisits(visits, token) ==
  SelectSeq(visits, LAMBDA v : /\ v.stage.kind \in {"OnEnter", "OnExit"}
                               /\ v.stage.key[1] = TokenName(token))

\* C20: the first update() after insertState(token) runs the OnEnter systems
\* of the token's initial value once each and no OnExit system of the token,
\* whatever was called in between; later updates run no hook of the token
\* unless a setState changed its value since the update before.
C20_InitialEnterOnFirstUpdate ==
  [][ Update =>
        \A token \in StateTokens :
          /\ sysHist.since[token] = 0 =>
               /\ SystemsOf(VisitsOf(log'.visits,
                                     OnEnter(StateValue(token, initial(token)))))
                    = SystemsOf(RegsOf(OnEnter(StateValue(token, initial(token)))))
               /\ \A n \in DOMAIN HookVisits(log'.visits, token) :
                    /\ HookVisits(log'.visits, token)[n].ran
                    /\ HookVisits(log'.visits, token)[n].stage.kind # "OnExit"
          /\ (sysHist.since[token] >= 1 /\ ~sysHist.changed[token]
                /\ \A n \in DOMAIN log'.visits : log'.visits[n].system # "play")
               => HookVisits(log'.visits, token) = << >>
    ]_vars

\* The same with no setState between insertState and the first update.
C20_InitialEnterUndisturbed ==
  [][ Update =>
        \A token \in StateTokens :
          /\ (sysHist.since[token] = 0 /\ ~sysHist.changed[token]) =>
               /\ SystemsOf(VisitsOf(log'.visits,
                                     OnEnter(StateValue(token, initial(token)))))
                    = SystemsOf(RegsOf(OnEnter(StateValue(token, initial(token)))))
               /\ \A n \in DOMAIN HookVisits(log'.visits, token) :
                    /\ HookVisits(log'.visits, token)[n].ran
                    /\ HookVisits(log'.visits, token)[n].stage.kind # "OnExit"
          /\ (sysHist.since[token] >= 1 /\ ~sysHist.changed[token]
                /\ \A n \in DOMAIN log'.visits : log'.visits[n].system # "play")
               => HookVisits(log'.visits, token) = << >>
    ]_vars

\* the hook systems of the token that a call reached are the OnExit(from)
\* registrations followed by the OnEnter(to) registrations, each once and
\* run, after every PreUpdate system and before every Update, PostUpdate and
\* Render system of the call
Dispatched(visits, token, from, to) ==
  LET hooks == HookVisits(visits, token)
      exits == RegsOf(OnExit(StateValue(token, from)))
      enters == RegsOf(OnEnter(StateValue(token, to)))
  IN /\ SystemsOf(hooks) = SystemsOf(exits) \o SystemsOf(enters)
     /\ \A n \in DOMAIN hooks :
          /\ hooks[n].ran
          /\ hooks[n].stage = IF n <= Len(exits)
                              THEN OnExit(StateValue(token, from))
                              ELSE OnEnter(StateValue(token, to))
     /\ \A i, j \in DOMAIN visits :
          i < j => Phase(visits[i].stage) <= Phase(visits[j].stage)

\* C21: a setState to a different value on a state whose initial dispatch has
\* happened, with no other setState on the token before the next dispatch, is
\* answered by getState at once and makes the next dispatch run OnExit(old)
\* then OnEnter(new), each once, between PreUpdate and Update: the dispatch of
\* the next update when the call was made between ticks or by an Update,
\* PostUpdate or Render system, the dispatch of the same update when it was
\* made by a PreUpdate system.
C21_TransitionDispatch ==
  [][ /\ \A sv \in {Menu, Playing} :
           (SetState(sv) /\ StateIndex(states, sv.state) # 0)
             => getState(states', sv.state) = sv.value
      /\ Update =>
           \A k \in StateTokens :
             LET v == log'.visits
                 pre == SetCalls(v, k, {"PreUpdate"})
                 pend == sysHist.pend[k]
             IN /\ \A n \in DOMAIN v :
                     (v[n].ran /\ v[n].system \in Setters(k) /\ v[n].cur[k] # "undefined")
                       => v[n].now[k] = "playing"
                /\ ( /\ pend.n = 1 /\ pend.ready /\ pend.from # pend.to
                     /\ pend.by \subseteq {"between", "Update", "PostUpdate", "Render"}
                     /\ pre = << >> )
                     => Dispatched(v, k, pend.from, pend.to)
                /\ ( /\ pend.n = 0 /\ sysHist.since[k] >= 1
                     /\ Len(pre) = 1 /\ pre[1].cur[k] # pre[1].now[k] )
                     => Dispatched(v, k, pre[1].cur[k], pre[1].now[k])
    ]_vars

\* the last update ran the OnExit(menu) system and then the OnEnter(playing)
\* system for a setState an Update system had made in the update before
C21_Witness ==
  /\ log.call = "update"
  /\ hist.ticks = 2
  /\ Len(log.visits) = 3
  /\ log.visits[1].stage = OnExit(Menu) /\ log.visits[1].ran
  /\ log.visits[2].stage = OnEnter(Playing) /\ log.visits[2].ran
  /\ log.visits[3].stage = UpdateStage /\ log.visits[3].system = "play"
  /\ log.visits[3].cur["GameState"] = "playing"
  /\ getState(states, "GameState") = "playing"

\* the last update ran a PreUpdate system that called setState(Playing) and
\* then, in the same update, the OnExit(menu) and OnEnter(playing) systems
C21_WitnessSameTick ==
  /\ log.call = "update"
  /\ Len(log.visits) = 3
  /\ log.visits[1].stage = PreUpdate /\ log.visits[1].system = "play"
  /\ log.visits[1].cur["GameState"] = "menu"
  /\ sysHist.since["GameState"] = 2
  /\ log.visits[2].stage = OnExit(Menu)
  /\ log.visits[3].stage = OnEnter(Playing)

\* C22: setState with the current value leaves the entry (current, previous,
\* dirty) as it was, and an update that follows only such calls since the
\* last dispatch runs no hook of the token; setState on a token that was
\* never inserted changes nothing, and getState of such a token is undefined.
C22_SameValueIsNoOp ==
  /\ [][ /\ \A sv \in {Menu, Playing} :
              SetState(sv) =>
                /\ getState(states, sv.state) = sv.value => states' = states
                /\ StateIndex(states, sv.state) = 0 =>
                     /\ states' = states
                     /\ getState(states', sv.state) = "undefined"
         /\ Update =>
              \A k \in StateTokens :
                ( /\ sysHist.pend[k].n >= 1 /\ ~sysHist.changed[k]
                  /\ sysHist.since[k] >= 1
                  /\ SetCalls(log'.visits, k, {"PreUpdate"}) = << >> )
                  => /\ HookVisits(log'.visits, k) = << >>
                     /\ states' = states
       ]_vars
  /\ [](\A k \in StateTokens :
          sysHist.since[k] < 0 => getState(states, k) = "undefined")

\* setState(Menu) was called on the state while it was in menu, after its
\* initial dispatch and with hook systems registered; nothing is pending
C22_Witness ==
  /\ sysHist.pend["GameState"].n = 1
  /\ sysHist.pend["GameState"].from = "menu"
  /\ sysHist.pend["GameState"].to = "menu"
  /\ sysHist.since["GameState"] >= 1
  /\ RegsOf(OnEnter(Menu)) # << >>
  /\ RegsOf(OnExit(Menu)) # << >>
  /\ states = << [token |-> "GameState", current |-> "menu",
                  previous |-> Null, dirty |-> FALSE] >>

\* the entry of a token is waiting for a dispatch
Dirty(token) ==
  StateIndex(states, token) # 0 /\ states[StateIndex(states, token)].dirty

\* C23: OnEnter and OnExit give one stage per (state token, value) pair and
\* kind: equal arguments give the same stage, and a different state token, a
\* different value or the other kind gives a different stage; so the systems
\* registered with the values of GameState run only in an update that
\* dispatches a transition of GameState.
C23_HookStagesDistinct ==
  /\ [](\A a, b \in AllStateValues :
          /\ OnEnter(a) = OnEnter(b) <=> a = b
          /\ OnExit(a) = OnExit(b) <=> a = b
          /\ OnEnter(a) # OnExit(b))
  /\ [][ Update =>
           (log'.visits # << >> => Dirty("GameState"))
       ]_vars

\* The consequence of C23 alone: a system registered with a value of
\* GameState runs only when a transition of GameState is dispatched.
C23_NoForeignRun ==
  [][ Update => (log'.visits # << >> => Dirty("GameState")) ]_vars

\* The same for the state tokens GameState and Door, whose value lists differ.
C23_DistinctValueLists ==
  /\ [](\A a, b \in {sv \in AllStateValues : sv.state # "Screen"} :
          /\ OnEnter(a) = OnEnter(b) <=> a = b
          /\ OnExit(a) = OnExit(b) <=> a = b
          /\ OnEnter(a) # OnExit(b))
  /\ [][ (Update /\ StateIndex(states, "Screen") = 0) =>
           (log'.visits # << >> => Dirty("GameState"))
       ]_vars

\* the handle was made for an entity that is still alive
HandleAlive == handle.exists /\ Exists(handle.id)

\* what entity e holds: its tokens and their values
Held(e) == [t \in Tokens |-> Get(e, t)]

\* C24: calls made one after another on one kept handle act on the entity's
\* current components: an insert that adds a token the entity did not hold
\* makes has true and get the inserted value on the same handle, a remove on
\* the handle takes the listed tokens from the entity, and the row a handle
\* reads or writes is never the row of another entity, so a call on the
\* handle leaves what every other entity holds as it was.
C24_HandleFollowsEntity ==
  /\ [][ /\ \A components \in DistinctLists :
              ( /\ HInsert(components)
                /\ HandleAlive
                /\ Range(TokensOf(components)) \ Sig(handle.id) # {} )
              => \A t \in Range(TokensOf(components)) :
                   /\ HHas(<< t >>)'
                   /\ HGet(t)' = SuppliedValue(components, t)
         /\ \A types \in TokenLists :
              (HRemove(types) /\ HandleAlive)
                => Sig(handle.id)' = Sig(handle.id) \ Range(types)
         /\ ( \/ \E components \in DistinctLists : HInsert(components)
              \/ \E types \in TokenLists : HRemove(types)
              \/ \E token \in Tokens : HGetMut(token)
              \/ HDespawn )
              => \A e \in Ids \ {handle.id} : Held(e)' = Held(e)
     ]_vars
  /\ []( (handle.exists /\ handle.record.row
            \in DOMAIN archetypes[handle.record.archetype].entities)
           => archetypes[handle.record.archetype].entities[handle.record.row]
                = handle.id )

\* The first part of C24 alone: the handle sees the component it inserted.
C24_HandleSeesItsInsert ==
  [][ \A components \in DistinctLists :
        ( /\ HInsert(components)
          /\ HandleAlive
          /\ Range(TokensOf(components)) \ Sig(handle.id) # {} )
        => \A t \in Range(TokensOf(components)) :
             /\ HHas(<< t >>)'
             /\ HGet(t)' = SuppliedValue(components, t)
    ]_vars

\* The last part of C24 alone: a call on the handle changes no other entity.
C24_OthersUntouched ==
  [][ ( \/ \E components \in DistinctLists : HInsert(components)
        \/ \E types \in TokenLists : HRemove(types)
        \/ \E token \in Tokens : HGetMut(token)
        \/ HDespawn )
        => \A e \in Ids \ {handle.id} : Held(e)' = Held(e)
    ]_vars

\* What does hold: while the world's table still holds the record object the
\* handle captured, the handle reads what a fresh handle reads.
C24_LiveHandleAgrees ==
  handle.live =>
    /\ \A t \in Tokens : HGet(t) = Get(handle.id, t)
    /\ \A types \in TokenLists : HHas(types) = Has(handle.id, types)
    /\ HInspect = Inspect(handle.id)

\* the tokens t for which world.entity(e).has(t) is true
HasSet(e) == {t \in Tokens : Has(e, << t >>)}

SpawnTarget(archs, components) ==
  ArchetypeGet(archs, ToOrderedSet(TokensOf(components)))

\* C26: an entity that holds S and a further token t (spawned with S, then
\* given t by insert) is, after remove(t), in the archetype a fresh spawn
\* with S uses, with the values of S as they were and get(e, t) undefined;
\* two live entities with the same tokens share an archetype and are
\* returned by exactly the same queries.
C26_InsertRemoveRoundTrip ==
  /\ [][ \A e \in Ids, t \in Tokens :
           ( /\ entityCounter' = entityCounter
             /\ Remove(e, << t >>)
             /\ Exists(e) /\ t \in Sig(e) /\ Sig(e) # {t} )
           => /\ Sig(e)' = Sig(e) \ {t}
              /\ \A u \in Sig(e) \ {t} : Get(e, u)' = Get(e, u)
              /\ Get(e, t)' = Undefined
              /\ \A components \in CompLists :
                   Range(TokensOf(components)) = Sig(e) \ {t}
                     => SpawnTarget(archetypes, components)'
                          = entityRecords'[e].archetype
       ]_vars
  /\ [](\A e, f \in Ids :
          (Exists(e) /\ Exists(f) /\ Sig(e) = Sig(f))
            => /\ entityRecords[e].archetype = entityRecords[f].archetype
               /\ \A types \in QueryArgs :
                    e \in QueryEntities(types) <=> f \in QueryEntities(types))

\* entity 1 was spawned into the first archetype, has been in the second one,
\* which holds one token more, and lost that token again in this tick; entity
\* 2, spawned with the tokens of the first archetype, is its neighbour there
C26_Witness ==
  /\ Len(archetypes) = 2
  /\ \E t \in Tokens :
       /\ SigSet(archetypes[2]) = SigSet(archetypes[1]) \cup {t}
       /\ t \notin SigSet(archetypes[1])
       /\ SigSet(archetypes[1]) # {}
       /\ removedThisFrame[t] = << 1 >>
       /\ 1 \in addedThisFrame[t]
  /\ archetypes[1].entities = << 1, 2 >>
  /\ archetypes[2].entities = << >>
  /\ \E types \in QueryArgs : {1, 2} \subseteq QueryEntities(types)

\* The same round trip in a world where no spawn has named a token twice
\* (every column is as long as its entity list, C2).
C26_RoundTripAligned ==
  /\ [][ \A e \in Ids, t \in Tokens :
           ( /\ entityCounter' = entityCounter
             /\ C2_ColumnsAligned
             /\ Remove(e, << t >>)
             /\ Exists(e) /\ t \in Sig(e) /\ Sig(e) # {t} )
           => /\ Sig(e)' = Sig(e) \ {t}
              /\ \A u \in Sig(e) \ {t} : Get(e, u)' = Get(e, u)
              /\ Get(e, t)' = Undefined
              /\ \A components \in CompLists :
                   Range(TokensOf(components)) = Sig(e) \ {t}
                     => SpawnTarget(archetypes, components)'
                          = entityRecords'[e].archetype
       ]_vars
  /\ [](\A e, f \in Ids :
          (Exists(e) /\ Exists(f) /\ Sig(e) = Sig(f))
            => /\ entityRecords[e].archetype = entityRecords[f].archetype
               /\ \A types \in QueryArgs :
                    e \in QueryEntities(types) <=> f \in QueryEntities(types))

\* what insert, remove, despawn and getMut could change
WorldStore ==
  << entityCounter, entityRecords, archetypes, queryCache,
     addedThisFrame, addedLastFrame, mutatedThisFrame, mutatedLastFrame,
     removedThisFrame, removedLastFrame, pendingDespawns >>

\* C27: for an id that has no record (never spawned, despawned and finalized,
\* or left without components) a handle made by entity(id) answers undefined
\* to get and getMut, false to has and the empty list to inspect, and its
\* insert, remove, despawn and getMut leave archetypes, records, the
\* change-tracking sets and the pending despawns as they were.
C27_DeadIdIsNoOp ==
  /\ [](\A e \in Ids :
          ~Exists(e) =>
            /\ \A t \in Tokens : Get(e, t) = Undefined
            /\ \A types \in TokenLists : ~Has(e, types)
            /\ Inspect(e) = << >>)
  /\ [][ \A e \in Ids :
           (~Exists(e) /\ entityCounter' = entityCounter
              /\ hist'.ticks = hist.ticks) =>
             ( ( \/ \E components \in CompLists : Insert(e, components)
                 \/ \E types \in TokenLists : Remove(e, types)
                 \/ Despawn(e)
                 \/ \E token \in Tokens : GetMut(e, token) )
               => UNCHANGED WorldStore )
       ]_vars

\* id 1 was despawned and finalized in the last update, id 2 was never
\* spawned, and a call has been made since that changed nothing
C27_Witness ==
  /\ entityCounter = 1 /\ ~Exists(1) /\ ~Exists(2)
  /\ \E t \in Tokens : 1 \in hist.remLast[t] /\ 1 \in Range(removedLastFrame[t])
  /\ hist.ticks = 1 /\ steps = 4
  /\ pendingDespawns = << >>

\* C28: remove(e, tokens) takes from a live entity exactly the listed tokens
\* it holds: a listed token it lacks is not recorded as removed, a held one
\* is, the components not listed keep their values, and when e holds none of
\* the listed tokens the call changes neither the store nor any
\* change-tracking set.
C28_RemoveOnlyHeldTokens ==
  [][ \A e \in Ids, types \in TokenLists :
        ( /\ entityCounter' = entityCounter
          /\ hist'.ticks = hist.ticks
          /\ Exists(e)
          /\ Remove(e, types) )
        => /\ Sig(e)' = Sig(e) \ Range(types)
           /\ \A t \in Tokens :
                Range(removedThisFrame'[t]) =
                  Range(removedThisFrame[t])
                    \cup (IF t \in Range(types) \cap Sig(e) THEN {e} ELSE {})
           /\ \A t \in Sig(e) \ Range(types) : Get(e, t)' = Get(e, t)
           /\ \A f \in Ids \ {e} : Held(f)' = Held(f)
           /\ Range(types) \cap Sig(e) = {} => UNCHANGED WorldStore
    ]_vars

\* a remove has just taken a held token from an entity whose list also named
\* a token it lacked: the entity keeps another token and is recorded as
\* removed for the first token only
C28_Witness ==
  \E e \in Ids, t, u \in Tokens :
    /\ Exists(e) /\ t # u
    /\ e \in hist.rem[t] /\ e \in Range(removedThisFrame[t])
    /\ ~Has(e, << t >>) /\ Has(e, << u >>)
    /\ e \notin Range(removedThisFrame[u])

\* The same for a remove made in a world where no spawn has named a token
\* twice (every column is as long as its entity list, C2).
C28_RemoveAligned ==
  [][ \A e \in Ids, types \in TokenLists :
        ( /\ entityCounter' = entityCounter
          /\ hist'.ticks = hist.ticks
          /\ C2_ColumnsAligned
          /\ Exists(e)
          /\ Remove(e, types) )
        => /\ Sig(e)' = Sig(e) \ Range(types)
           /\ \A t \in Tokens :
                Range(removedThisFrame'[t]) =
                  Range(removedThisFrame[t])
                    \cup (IF t \in Range(types) \cap Sig(e) THEN {e} ELSE {})
           /\ \A t \in Sig(e) \ Range(types) : Get(e, t)' = Get(e, t)
           /\ \A f \in Ids \ {e} : Held(f)' = Held(f)
           /\ Range(types) \cap Sig(e) = {} => UNCHANGED WorldStore
    ]_vars

\* The parts of C28 that do not read a value: which tokens go, what is
\* recorded, and that a remove of tokens the entity lacks changes nothing.
C28_RemoveBookkeeping ==
  [][ \A e \in Ids, types \in TokenLists :
        ( /\ entityCounter' = entityCounter
          /\ hist'.ticks = hist.ticks
          /\ Exists(e)
          /\ Remove(e, types) )
        => /\ Sig(e)' = Sig(e) \ Range(types)
           /\ \A t \in Tokens :
                Range(removedThisFrame'[t]) =
                  Range(removedThisFrame[t])
                    \cup (IF t \in Range(types) \cap Sig(e) THEN {e} ELSE {})
           /\ Range(types) \cap Sig(e) = {} => UNCHANGED WorldStore
    ]_vars

\* world.query(...types) in a world with the archetypes archs and the cache
QueryResultIn(archs, cache, types) ==
  QueryRows(archs, getMatchingArchetypes(cache, archs, types), OutputTypes(types))

\* C29: no two archetypes have the same token set, so registerArchetype,
\* spawn, insert and remove reach one archetype per set whatever the order of
\* the tokens: every live entity is in the archetype any ordering of its
\* tokens names.  registerArchetype on a token set that has an archetype
\* creates nothing, keeps the query cache and leaves every query result as
\* it was.
C29_OneArchetypePerTokenSet ==
  /\ [](/\ \A i, j \in DOMAIN archetypes :
             SigSet(archetypes[i]) = SigSet(archetypes[j]) => i = j
        /\ \A tokens, other \in TokenLists :
             Range(other) = Range(tokens)
               => ArchetypeGet(archetypes, ToOrderedSet(other))
                    = ArchetypeGet(archetypes, ToOrderedSet(tokens))
        /\ \A e \in Ids, tokens \in TokenLists :
             (Exists(e) /\ Range(tokens) = Sig(e))
               => ArchetypeGet(archetypes, ToOrderedSet(tokens))
                    = entityRecords[e].archetype)
  /\ [][ ( /\ entityRecords' = entityRecords
           /\ pendingDespawns' = pendingDespawns
           /\ hist'.ticks = hist.ticks )
         => /\ \A tokens \in TokenLists :
                 RegisterArchetype(tokens)
                   => /\ ArchetypeGet(archetypes', ToOrderedSet(tokens)) # 0
                      /\ (\E i \in DOMAIN archetypes :
                            SigSet(archetypes[i]) = Range(tokens))
                           => /\ archetypes' = archetypes
                              /\ queryCache' = queryCache
            /\ (\E tokens \in TokenLists :
                  /\ \E i \in DOMAIN archetypes :
                       SigSet(archetypes[i]) = Range(tokens)
                  /\ RegisterArchetype(tokens))
                 => \A types \in QueryArgs :
                      QueryResultIn(archetypes', queryCache', types)
                        = QueryResult(types)
       ]_vars

\* one archetype of two tokens holds two entities beside an archetype of one
\* token, and a query result is cached
C29_Witness ==
  /\ \E i, j \in DOMAIN archetypes :
       /\ Len(archetypes[i].signature) = 2
       /\ Len(archetypes[i].entities) = 2
       /\ Len(archetypes[j].signature) = 1
  /\ DOMAIN queryCache # {}

\* the change-tracking sets and pending despawns that name entity f
MarksOf(f) ==
  [t \in Tokens |->
     << f \in addedThisFrame[t], f \in mutatedThisFrame[t],
        f \in Range(removedThisFrame[t]), f \in addedLastFrame[t],
        f \in mutatedLastFrame[t], f \in Range(removedLastFrame[t]) >>]

\* ids are handed out in increasing order from 1 and an id without a record
\* gets one only by being handed out
IdsNeverReused ==
  /\ [](\A e \in Ids : Exists(e) => (1 <= e /\ e <= entityCounter))
  /\ [][ /\ entityCounter' >= entityCounter
         /\ \A e \in Ids :
              (~Exists(e) /\ Exists(e)')
                => (entityCounter < e /\ e <= entityCounter')
     ]_vars

\* a call through a handle made for the one call, aimed at an id without a
\* record, changes nothing held by or recorded for any entity
DeadIdCallsReachNoOne ==
  [][ \A e \in Ids :
        ( /\ ~Exists(e) /\ entityCounter' = entityCounter
          /\ hist'.ticks = hist.ticks
          /\ ( \/ \E components \in DistinctLists : Insert(e, components)
               \/ \E types \in TokenLists : Remove(e, types) ) )
        => \A f \in Ids : Held(f)' = Held(f) /\ MarksOf(f)' = MarksOf(f)
    ]_vars

\* C30: the ids returned by spawn are strictly increasing positive integers
\* and none is returned twice, also after its entity has been despawned or
\* has lost all its components; so a call addressed to the id of a dead
\* entity, through a handle made for the call or through one kept from the
\* time the entity lived, changes nothing that a later entity holds or that
\* is recorded for it.
C30_DeadIdsReachNoLaterEntity ==
  /\ IdsNeverReused
  /\ DeadIdCallsReachNoOne
  /\ [][ ( /\ handle.id \in Ids /\ ~Exists(handle.id)
           /\ entityCounter' = entityCounter
           /\ hist'.ticks = hist.ticks
           /\ ( \/ \E components \in DistinctLists : HInsert(components)
                \/ \E types \in TokenLists : HRemove(types)
                \/ \E token \in Tokens : HGetMut(token)
                \/ HDespawn ) )
         => \A f \in Ids \ {handle.id} :
              /\ Held(f)' = Held(f)
              /\ MarksOf(f)' = MarksOf(f)
              /\ (f \in Range(pendingDespawns') <=> f \in Range(pendingDespawns))
       ]_vars

\* The part of C30 about the ids and about handles made for the call.
C30_FreshIds == IdsNeverReused /\ DeadIdCallsReachNoOne

\* entity 1 is dead, entity 2 was spawned after it died and lives in the row
\* entity 1 had
C30_Witness ==
  /\ entityCounter = 2 /\ ~Exists(1) /\ Exists(2)
  /\ \E t \in Tokens : 1 \in Range(removedThisFrame[t]) /\ Has(2, << t >>)
  /\ entityRecords[2].row = 1

\* what has, get and inspect answer for entity f
ViewOf(f) == << HasSet(f), Held(f), Inspect(f) >>

\* an insert or remove made through world.entity(e) at the time of the call,
\* and the despawns an update finalizes, leave what has, get and inspect
\* answer for every other live entity as it was
C31_OthersKeepTheirView ==
  /\ [][ (entityCounter' = entityCounter /\ hist'.ticks = hist.ticks)
           => \A f \in Slots :
                (Exists(f) /\ ViewOf(f)' # ViewOf(f))
                  => \A e \in Slots \ {f} :
                       /\ \A components \in ShortLists(CompLists) :
                            ~Insert(e, components)
                       /\ \A types \in ShortLists(TokenLists) : ~Remove(e, types)
       ]_vars
  /\ [][ (hist'.ticks = hist.ticks + 1 /\ Update)
           => \A f \in Slots \ Range(pendingDespawns) :
                Exists(f) => (Exists(f)' /\ ViewOf(f)' = ViewOf(f))
       ]_vars

\* C31: an insert, a remove or a finalized despawn of entity e leaves
\* has(f, t), get(f, t) and inspect(f) as they were for every other live
\* entity f and every token t, also when f is the entity swap-remove moves
\* into the row e leaves and when several entities of one archetype are
\* despawned in one tick; the insert or remove may come through a handle of
\* the live entity e that was made before earlier calls.
C31_InsertRemoveDespawnLocal ==
  /\ C31_OthersKeepTheirView
  /\ [][ ( /\ entityCounter' = entityCounter
           /\ hist'.ticks = hist.ticks
           /\ handle.id \in Slots /\ Exists(handle.id)
           /\ ( \/ \E components \in DistinctLists : HInsert(components)
                \/ \E types \in TokenLists : HRemove(types) ) )
         => \A f \in Slots \ {handle.id} :
              Exists(f) => ViewOf(f)' = ViewOf(f)
       ]_vars

\* two entities of the one archetype were despawned in the last tick, and
\* the third, which holds a value they did not share, was moved into a row
\* one of them left
C31_Witness ==
  /\ Len(archetypes) = 1 /\ entityCounter = 3 /\ hist.ticks = 1
  /\ \E f \in Slots, t \in Tokens :
       /\ Exists(f) /\ f \in hist.moved /\ Get(f, t) = 2
       /\ hist.remLast[t] = Slots \ {f}
       /\ archetypes[1].entities = << f >>


\* the hooks of one dispatch in which a system ran are well paired, given
\* what was entered before
RECURSIVE WellPaired(_, _)
WellPaired(entered, hooks) ==
  IF hooks = << >> THEN TRUE
  ELSE LET h == Head(hooks)
           e == entered[h.token]
       IN /\ h.ran => IF h.kind = "OnExit" THEN h.value = e.last
                      ELSE e.last = Null \/ ~e.open
          /\ WellPaired(EnteredAfter(entered, << h >>), Tail(hooks))

\* C32: for each state token the hooks run in well-paired order, for any
\* number of setState calls made between two dispatches: OnExit(v) runs only
\* when v is the value whose OnEnter was dispatched last for the token, and
\* OnEnter(w) runs only when no value is entered yet or the value entered
\* before has had its OnExit dispatched since.
C32_HooksWellPaired ==
  [][ (hist'.ticks = hist.ticks + 1 /\ log'.call = "update")
        => WellPaired(sysHist.entered, log'.hooks) ]_vars

\* C32 for a token whose initial OnEnter has been dispatched (a setState
\* before the first dispatch is C20's case): whatever number of setState
\* calls came before a dispatch, OnExit(v) runs only for the value entered
\* last and OnEnter(w) only when that value has been exited.
C32_PairedAfterFirstDispatch ==
  [][ (hist'.ticks = hist.ticks + 1 /\ log'.call = "update")
        => WellPaired(sysHist.entered,
                      SelectSeq(log'.hooks,
                                LAMBDA h : sysHist.entered[h.token].last # Null))
    ]_vars

\* The same where at most one setState call has changed the value of the
\* token since its last dispatch.
C32_PairedAfterOneChange ==
  [][ (hist'.ticks = hist.ticks + 1 /\ log'.call = "update")
        => WellPaired(sysHist.entered,
                      SelectSeq(log'.hooks,
                                LAMBDA h :
                                  LET i == StateIndex(states, h.token)
                                  IN /\ sysHist.entered[h.token].last # Null
                                     /\ states[i].previous \in
                                          {Null, sysHist.entered[h.token].last}))
    ]_vars


\* C33: no state change is lost: every setState call that changes the
\* current value, also one made by a system of an OnEnter or OnExit stage
\* during the dispatch, is followed by a dispatch of OnEnter for the
\* resulting value no later than the dispatch phase of the next update; that
\* is, whenever the dirty flag of a registered state is false, the value
\* whose OnEnter was dispatched last is getState().
C33_NoChangeLost ==
  \A i \in DOMAIN states :
    ~states[i].dirty =>
      sysHist.entered[states[i].token].last = getState(states, states[i].token)

\* the ids in the order a reader was handed them are increasing
InSendOrder(ids) == \A i, j \in DOMAIN ids : i < j => ids[i] < ids[j]

\* C34: a reader that calls read() at least once during every tick and never
\* calls reset() receives every item sent after its construction exactly
\* once and in send order, whichever stages and registration positions the
\* writing and the reading system have and also for items sent between
\* ticks: no such item leaves the queue before the reader was handed it, and
\* after each of its reads the reader has been handed all of them.
C34_DiligentReaderGetsAll ==
  \A r \in DOMAIN readers :
    (~evHist.wasReset[r] /\ ~evHist.idle[r]) =>
      /\ InSendOrder(evHist.got[r])
      /\ \A k \in DOMAIN evHist.sent :
           k > evHist.born[r] =>
             /\ Delivered(r, evHist.sent[k].id) <= 1
             /\ \/ Delivered(r, evHist.sent[k].id) = 1
                \/ /\ evHist.sent[k].id \in RetainedIds(eventQueues, readers[r])
                   /\ k > evHist.mark[r]

\* the first reader, read by a system in every tick, has been handed three
\* items in send order, one of them sent between ticks and one by a system;
\* the second reader let a tick pass without reading and an item sent after
\* its construction has left the queue without being handed to it
C34_Witness ==
  /\ Len(readers) = 2
  /\ ~evHist.idle[1] /\ hist.ticks >= 2
  /\ \E n \in DOMAIN log.visits : log.visits[n].system = "recv" /\ log.visits[n].ran
  /\ Len(evHist.got[1]) >= 2
  /\ \E k \in DOMAIN evHist.sent :
       ~evHist.sent[k].inTick /\ Delivered(1, evHist.sent[k].id) = 1
  /\ \E k \in DOMAIN evHist.sent :
       evHist.sent[k].inTick /\ Delivered(1, evHist.sent[k].id) = 1
  /\ evHist.idle[2]
  /\ \E k \in DOMAIN evHist.sent :
       /\ k > evHist.born[2]
       /\ Delivered(2, evHist.sent[k].id) = 0
       /\ evHist.sent[k].id \notin RetainedIds(eventQueues, readers[2])


\* the visit of a system that threw, or whose guard threw
Thrower(v) == (v.ran /\ v.system = "boom" /\ ~v.flg) \/ GuardThrew(v.evals)

\* the number of visits in which the system ran
Ran(visits, name) ==
  Cardinality({n \in DOMAIN visits : visits[n].ran /\ visits[n].system = name})

\* seq is the beginning of longer
IsPrefix(seq, longer) ==
  Len(seq) <= Len(longer) /\ seq = SubSeq(longer, 1, Len(seq))

\* C35: if a system or guard throws during update(), the exception leaves
\* update(): no later system of that stage, no later stage and none of the
\* three finalization passes runs in that call, the mutations made so far
\* are kept, and the pending despawns, the change marks of this tick, the
\* queued items and the dirty flag and previous value of a state not yet
\* dispatched stay as they were; the next update() that completes processes
\* them.
C35_ExceptionAbortsTick ==
  /\ [][ (Update /\ log'.threw) =>
           LET vs == log'.visits
               n == Len(vs)
               qs == WithQueue(eventQueues, "E")
           IN /\ n > 0 /\ Thrower(vs[n])
              /\ \A m \in 1..(n - 1) : ~Thrower(vs[m])
              /\ UNCHANGED << archetypes, entityRecords, addedThisFrame,
                              addedLastFrame, mutatedThisFrame, mutatedLastFrame,
                              removedThisFrame, removedLastFrame >>
              /\ hist'.ticks = hist.ticks
              /\ IsPrefix(pendingDespawns, pendingDespawns')
              /\ (Ran(vs, "reap") > 0 /\ Exists(1)) => 1 \in Range(pendingDespawns')
              /\ \A k \in DOMAIN eventQueues :
                   /\ eventQueues'[k].currentFrame = eventQueues[k].currentFrame
                   /\ IsPrefix(eventQueues[k].events, eventQueues'[k].events)
              /\ Ran(vs, "send") > 0 =>
                   Len(eventQueues'["E"].events) = Len(qs["E"].events) + Ran(vs, "send")
              /\ \A k \in StateTokens : getState(states', k) = vs[n].now[k]
              /\ \A i \in DOMAIN states :
                   (states[i].dirty /\ vs[n].stage.kind \in {"PreUpdate", "OnExit", "OnEnter"})
                     => /\ states'[i].dirty
                        /\ states'[i].current = states[i].current
                             => states'[i].previous = states[i].previous
       ]_vars
  /\ [][ (Update /\ log.threw /\ ~log'.threw) =>
           /\ hist'.ticks = hist.ticks + 1
           /\ pendingDespawns' = << >>
           /\ \A e \in Range(pendingDespawns) : ~Exists(e)'
           /\ addedLastFrame' = addedThisFrame
           /\ mutatedLastFrame' = mutatedThisFrame
           /\ \A k \in DOMAIN eventQueues :
                eventQueues'[k].currentFrame = eventQueues[k].currentFrame + 1
           /\ \A i \in DOMAIN states :
                states[i].dirty =>
                  \E h \in DOMAIN log'.hooks :
                    /\ log'.hooks[h].token = states[i].token
                    /\ log'.hooks[h].kind = "OnEnter"
       ]_vars

\* an update has been left by an exception thrown in PreUpdate: the entity a
\* system despawned before the throw is still pending and alive, the item a
\* system sent is queued in the frame it was sent in, the state is still
\* dirty, and the system registered to Render was not reached
C35_Witness ==
  /\ log.call = "update" /\ log.threw
  /\ log.visits[Len(log.visits)].stage = PreUpdate
  /\ pendingDespawns = << 1 >> /\ Exists(1)
  /\ "E" \in DOMAIN eventQueues
  /\ Len(eventQueues["E"].events) = 1 /\ eventQueues["E"].currentFrame = 0
  /\ \E i \in DOMAIN states : states[i].dirty
  /\ systems[Render] # << >>
  /\ \A n \in DOMAIN log.visits : log.visits[n].stage # Render


\* the entities world.query(Entity) returns in a world with these archetypes
\* and this cache
AllEntities(archs, cache) ==
  {QueryResultIn(archs, cache, << Entity >>)[i][1] :
     i \in DOMAIN QueryResultIn(archs, cache, << Entity >>)}

\* the archetype rows that hold entity e
PlacesOf(archs, e) ==
  {<< i, row >> \in (DOMAIN archs) \X (1..MaxCrowd) :
     row \in DOMAIN archs[i].entities /\ archs[i].entities[row] = e}

\* C36: when remove leaves entity e with no components, e ceases to exist at
\* once and not at the end of the tick: it is in no archetype, query(Entity)
\* no longer returns it, every removed token is recorded as removed for e,
\* and a despawn of e that was pending is skipped at finalization without
\* recording anything.  An entity made by spawn() with no components is
\* live and is returned by query(Entity) until it is despawned.
C36_EmptiedEntityIsGone ==
  /\ [][ \A e \in Ids, types \in TokenLists :
           ( /\ entityCounter' = entityCounter
             /\ hist'.ticks = hist.ticks
             /\ Exists(e) /\ Sig(e) # {} /\ Sig(e) \subseteq Range(types)
             /\ Remove(e, types) )
           => /\ ~Exists(e)'
              /\ PlacesOf(archetypes', e) = {}
              /\ e \notin AllEntities(archetypes', queryCache')
              /\ \A t \in Sig(e) : e \in Range(removedThisFrame'[t])
              /\ \A t \in Tokens \ Sig(e) :
                   e \in Range(removedThisFrame'[t]) <=> e \in Range(removedThisFrame[t])
              /\ pendingDespawns' = pendingDespawns
       ]_vars
  /\ [][ (hist'.ticks = hist.ticks + 1 /\ Update)
           => \A e \in Range(pendingDespawns) :
                ~Exists(e) =>
                  /\ ~Exists(e)'
                  /\ \A t \in Tokens :
                       e \in Range(removedLastFrame'[t]) <=> e \in Range(removedThisFrame[t])
       ]_vars
  /\ [][ \A components \in DistinctLists :
           (entityCounter' = entityCounter + 1 /\ components = << >> /\ Spawn(components))
             => \E n \in Ids :
                  /\ n = entityCounter + 1
                  /\ Exists(n)' /\ Sig(n)' = {}
                  /\ n \in AllEntities(archetypes', queryCache')
       ]_vars
  /\ [](\A e \in Ids :
          (Exists(e) /\ Sig(e) = {}) =>
            /\ e \in AllEntities(archetypes, queryCache)
            /\ Inspect(e) = << >>)
  /\ [][ \A e \in Ids :
           (Exists(e) /\ Sig(e) = {} /\ ~Exists(e)')
             => (hist'.ticks = hist.ticks + 1 /\ e \in Range(pendingDespawns))
       ]_vars

\* entity 1 lost its last component by a remove while its despawn was
\* pending, and the update since recorded nothing for it; entity 2, spawned
\* without components, is live and is what query(Entity) returns from its
\* cached archetype list
C36_Witness ==
  /\ ~Exists(1) /\ Exists(2) /\ Sig(2) = {}
  /\ hist.ticks = 1
  /\ \E t \in Tokens : 1 \in Range(removedLastFrame[t]) /\ 1 \in hist.remLast[t]
  /\ QueryKey(<< Entity >>) \in DOMAIN queryCache
  /\ AllEntities(archetypes, queryCache) = {2}


\* the calls C37 names, with every argument SpecRead makes them with
ReadCall ==
  \/ \E e \in Ids, token \in Tokens : CallGet(e, token)
  \/ \E e \in Ids, types \in TokenLists : CallHas(e, types)
  \/ \E e \in Ids : CallInspect(e)
  \/ \E types \in ReadArgs : QueryNoting(types, Selected(types))
  \/ \E types \in ReadArgs : QueryTrackedNoting(addedLastFrame, types, TRUE)
  \/ \E types \in ReadArgs : QueryTrackedNoting(mutatedLastFrame, types, TRUE)
  \/ \E types \in ReadArgs : QueryRemoved(types)
  \/ \E token \in StateTokens : GetState(token)
  \/ GetResource

\* the entities queryChanged(Entity, t) reports
ChangedEntities(t) ==
  {QueryChangedResult(<< Entity, Req(t) >>)[i][1] :
     i \in DOMAIN QueryChangedResult(<< Entity, Req(t) >>)}

\* C37: a call of get, has, inspect, query, queryAdded, queryChanged,
\* queryRemoved, getState or getResource leaves the archetypes, the entity
\* records, the pending despawns and the six change-tracking maps as they
\* were, and an entity that the previous tick only read (no getMut, queryMut
\* or overwriting insert reached its component t) is not reported by
\* queryChanged(Entity, t).
C37_ReadsLeaveNoTrace ==
  /\ [][ (entityCounter' = entityCounter /\ hist'.ticks = hist.ticks /\ ReadCall)
           => UNCHANGED << archetypes, entityRecords, pendingDespawns,
                           addedThisFrame, addedLastFrame, mutatedThisFrame,
                           mutatedLastFrame, removedThisFrame, removedLastFrame >>
       ]_vars
  /\ [](\A t \in Tokens :
          \A e \in hist.readLast \ (hist.accLast[t] \cup hist.overLast[t]) :
            e \notin ChangedEntities(t))

\* after a tick in which entity 1 was only read and entity 2 was reached by
\* getMut, queryChanged(Entity, A) reports entity 2 alone
C37_Witness ==
  /\ hist.ticks = 1
  /\ 1 \in hist.readLast /\ 1 \notin hist.accLast["A"]
  /\ "A" \in Sig(1) /\ "A" \in Sig(2)
  /\ ChangedEntities("A") = {2}


\* spawn(...factory()) called count times, the i-th call with the factory's
\* i-th result
RECURSIVE SpawnEach(_, _, _, _, _)
SpawnEach(s, i, count, first, rest) ==
  IF i >= count THEN s
  ELSE SpawnEach(AfterSpawn(s, FactoryCall(i, first, rest)), i + 1, count, first, rest)

\* what a caller can see of the fields s: the component values and the
\* signature of every id, what query returns for every argument list, and
\* the added-this-tick marks
Observable(s) ==
  [counter |-> s.counter,
   rows    |-> [e \in Slots |->
                  IF s.records[e] = NoRecord THEN << >>
                  ELSE LET a == s.archs[s.records[e].archetype]
                       IN << a.signature,
                             [t \in SigSet(a) |->
                                IF s.records[e].row \in DOMAIN a.columns[t]
                                THEN a.columns[t][s.records[e].row]
                                ELSE Undefined] >>],
   queries |-> [types \in QueryArgs |-> QueryResultIn(s.archs, s.cache, types)],
   added   |-> s.added]

\* C38: a spawnBatch(n, factory) call with n >= 1 whose factory returns
\* lists over one token set calls the factory n times, returns the n ids
\* after the counter, and leaves the counter, the archetypes, the records,
\* the query cache and the added marks (so also every component value and
\* every query result) exactly as n spawn calls would, the i-th with the
\* factory's i-th result.
C38_BatchIsRepeatedSpawn ==
  [][ entityCounter' > entityCounter =>
        \A count \in 1..MaxBatch, first \in CompLists :
          \A rest \in SameTokens(CompLists, count, first) :
            SpawnBatch(count, first, rest) =>
              /\ FactoryCalls(count) = count
              /\ entityCounter' = entityCounter + count
              /\ [counter |-> entityCounter', archs |-> archetypes',
                  records |-> entityRecords', added |-> addedThisFrame',
                  cache |-> queryCache']
                   = SpawnEach(StoreNow, 0, count, first, rest)
              /\ Observable(AfterSpawnBatch(StoreNow, count, first, rest))
                   = Observable(SpawnEach(StoreNow, 0, count, first, rest))
    ]_vars

\* a batch of two made entities 1 and 2 with different values in a new
\* archetype
C38_Witness ==
  /\ steps = 1 /\ entityCounter = 2
  /\ Exists(1) /\ Exists(2)
  /\ entityRecords[1].archetype = entityRecords[2].archetype
  /\ Get(1, "A") = 1 /\ Get(2, "A") = 2


\* C39: as long as run() is never entered while the App is running,
\* whatever run, stop and resume calls come between the animation frames,
\* at most one loop callback is requested or due at any time, and no
\* animation frame calls world.update() more than once.
C39_AtMostOneLoop ==
  app.reruns = 0 =>
    /\ app.due + app.next <= 1
    /\ app.inFrame <= 1

\* C39, the part on stop(): while stop() is the last of run, stop and resume
\* to have been called (and no runAsync is suspended), no update() runs.
C39_StoppedMeansNoUpdate ==
  [][ (app.halted /\ app'.halted) => app'.updates = app.updates ]_vars

\* C39, what does hold of the frames: every update() of a frame is the call
\* of a different loop, each of which has requested its next callback.
C39_OneUpdatePerLoop == app.inFrame <= app.next

\* C40: init() runs its Startup stage at most once, and it has run by the
\* time update() is first called, whether run() or runAsync() started the
\* loop.
C40_StartupOnceBeforeUpdate ==
  /\ app.startups <= 1
  /\ app.updates > 0 => app.startups = 1

\* C40 for an App on which runAsync() was never called
C40_StartupOnceWithRun ==
  /\ app.startups <= 1
  /\ (app.updates > 0 /\ app.asyncs = 0) => app.startups = 1


===========================================================================
